---- MODULE Spec2Model ----
(***************************************************************************)
(* Employee-Activity-Monitor: the movement batch of ActivityDetector       *)
(* (activity_detector.py), the shutdown sequence of EmployeeMonitor        *)
(* (employee_monitor.py) and the event store with its analytics queries    *)
(* (database.py).                                                          *)
(*                                                                         *)
(* Two state machines share this module:                                   *)
(*   Spec       the threads of one monitor process: the two pynput         *)
(*              listener threads running the input callbacks, the batch    *)
(*              timer thread, the status thread, the monitoring thread     *)
(*              and the main thread running start() and stop();            *)
(*   StoreSpec  the events table fed by log_event, over which the          *)
(*              analytics queries are evaluated as operators.              *)
(* ReaderSpec adds the daily report of stop() to the threads, AdminSpec    *)
(* the deleting operations of the dashboard to the events table, and       *)
(* ScenarioSpec and QuickSpec feed the table with streams whose events     *)
(* are minutes, or one tick, apart.                                        *)
(* Each thread step is one access to shared memory (CPython switches       *)
(* threads between bytecodes, never inside list.append or list.clear).     *)
(***************************************************************************)
EXTENDS Integers, Sequences, FiniteSets, TLC

(* ------------------------------------------------------------------ *)
(* Bounds and program constants                                        *)
(* ------------------------------------------------------------------ *)

\* activity_detector.py:64  "if len(self.movement_events) >= 50"
FLUSH_THRESHOLD == 50

\* Length of the one uninterrupted run of callbacks RecordBurst takes.
BurstLen == 48

\* Callbacks scheduled one step at a time, besides the burst.
MaxSingles == 3

\* Iterations of log_movement_batch's for loop that run before another thread
\* is scheduled.
IterChunk == 25

\* Store write failures injected in one run.
MaxFailures == 1

Recorders == {"mouse", "keyboard"}
Flushers == Recorders \cup {"batch", "main"}
Threads == Flushers \cup {"status", "monitor"}

VARIABLES
  movement_events,   \* ActivityDetector.movement_events: the in-memory batch
  lock,              \* ActivityDetector.lock: its holder, or "free"
  db_lock,           \* database._DB_LOCK: its holder, or "free"
  movement_logs,     \* committed rows of table movement_logs, in insert order
  pc,                \* position of each thread
  idx,               \* log_movement_batch: the list iterator's index, per thread
  txn,               \* log_movement_batch: rows inserted, not yet committed
  is_running,        \* ActivityDetector.is_running
  mon_running,       \* EmployeeMonitor.is_running
  shutdown_event,    \* EmployeeMonitor.shutdown_event
  listener_on,       \* pynput listeners started and not stopped
  current_status,    \* ActivityDetector._current_status
  nrec,              \* number of records accepted by _add_event so far
  failures,          \* store write failures so far
  explicit_flush,    \* history: _flush_batch was called by the timer or stop()
  flush_failed,      \* history: threads in which a flush raised
  accepted_at_return,\* history: nrec when stop() returned
  events,            \* rows of table events
  now,               \* utcnow() at the latest call of log_event
  reader,            \* position of the main thread in get_global_summary
  log_call,          \* the calls of log_event under way and what they returned
  last_window,       \* _monitoring_loop: last_window
  idle_start_time,   \* EmployeeMonitor.idle_start_time
  activity_status,   \* _monitoring_loop: activity_status of the latest pass
  logged,            \* history: the rows the latest pass gave to log_event
  employees,         \* rows of table employees, by employee_id
  screenshots,       \* rows of table screenshots
  employee_call,     \* history: the latest call that wrote table employees
  on_status_change,  \* ActivityDetector.on_status_change
  callback,          \* history: the latest call of on_status_change
  wall,              \* time.time(), in seconds since the monitor was built
  next_random_shot_at, \* EmployeeMonitor._next_random_shot_at
  shot               \* history: the latest call of _schedule_next_shot

bufvars == <<movement_events, lock, db_lock, movement_logs, pc, idx, txn,
             is_running, mon_running, shutdown_event, listener_on,
             current_status, nrec, failures, explicit_flush, flush_failed,
             accepted_at_return>>
storevars == <<events, now, reader, log_call>>
monvars == <<last_window, idle_start_time, activity_status, logged>>
tablevars == <<employees, screenshots, employee_call>>
cbvars == <<on_status_change, callback>>
shotvars == <<wall, next_random_shot_at, shot>>
restvars == <<monvars, tablevars, cbvars, shotvars>>
vars == <<bufvars, storevars, restvars>>

(* ------------------------------------------------------------------ *)
(* Helpers                                                             *)
(* ------------------------------------------------------------------ *)

Range(s) == {s[i] : i \in 1..Len(s)}

Occurrences(s, x) == Cardinality({i \in 1..Len(s) : s[i] = x})

AfterFlushRelocking(t) ==
  IF t \in Recorders THEN "add_lock"
  ELSE IF t = "batch" THEN "loop_test"
  ELSE "stop_listeners"

\* Where _flush_batch returns to, by caller.
AfterFlush(t) ==
  IF t \in Recorders THEN "add_release"
  ELSE IF t = "batch" THEN "loop_test"
  ELSE "stop_listeners"

\* Where an exception leaving _flush_batch ends up: out of the "with" block and
\* the callback into pynput; out of _batch_loop (no handler: the thread ends);
\* out of stop().
AfterRaise(t) ==
  IF t \in Recorders THEN "cb_raised"
  ELSE IF t = "batch" THEN "dead"
  ELSE "stop_raised"

\* activity_detector.py:64
ReachedThresholdStrict(n) == n > FLUSH_THRESHOLD
ReachedThreshold(n) == n >= FLUSH_THRESHOLD

(* ------------------------------------------------------------------ *)
(* Initial state: after EmployeeMonitor() has been constructed          *)
(* ------------------------------------------------------------------ *)

BufInit ==
  /\ movement_events = <<>>
  /\ lock = "free"
  /\ db_lock = "free"
  /\ movement_logs = <<>>
  /\ pc = [t \in Threads |-> IF t = "main" THEN "init" ELSE "off"]
  /\ idx = [t \in Flushers |-> 0]
  /\ txn = [t \in Flushers |-> <<>>]
  /\ is_running = FALSE
  /\ mon_running = FALSE
  /\ shutdown_event = FALSE
  /\ listener_on = [t \in Recorders |-> FALSE]
  /\ current_status = "active"
  /\ nrec = 0
  /\ failures = 0
  /\ explicit_flush = FALSE
  /\ flush_failed = {}
  /\ accepted_at_return = 0

\* The threads that call log_event: the monitoring loop, and one more thread
\* of the process (log_event and _DB_LOCK belong to the module).
LogCallers == {"monitor", "caller"}

StoreIdle ==
  /\ events = <<>>
  /\ now = 0
  /\ reader = "out"
  /\ log_call = [pc |-> [c \in LogCallers |-> "out"],
                 row |-> [c \in LogCallers |-> <<>>],
                 event_id |-> [c \in LogCallers |-> 0],
                 seq |-> 0,
                 returned |-> <<>>]

\* "self.idle_start_time = None"
NotIdle == -1

\* EmployeeMonitor.__init__ and the first lines of _monitoring_loop:
\* "last_window = None"; no pass was made yet.
MonIdle ==
  /\ last_window = <<"<None>">>
  /\ idle_start_time = NotIdle
  /\ activity_status = "none"
  /\ logged = <<>>

Employees == {"emp1", "emp2"}

NULL == <<"<None>">>

\* json.dumps(d), a text that is never NULL; json.loads(text)
JsonDumps(d) == <<"json", d>>
JsonLoads(text) == text[2]

\* No row of table employees has the employee_id.
NoRow == [present |-> FALSE, name |-> NULL, team |-> NULL, config |-> NULL]

\* The tables after EmployeeMonitor.start of each employee on a new
\* database: "upsert_employee(self.employee_id)" has inserted the row.
TablesIdle ==
  /\ employees = [e \in Employees |->
                    [present |-> TRUE, name |-> NULL, team |-> NULL,
                     config |-> JsonDumps(<<>>)]]
  /\ screenshots = <<>>
  /\ employee_call = [op |-> "none"]

\* "self.on_status_change = on_status_change": no callback
NoCallback == "None"

\* ActivityDetector.__init__(on_status_change); no call was made yet.
DetectorIdle(on_change) ==
  /\ on_status_change = on_change
  /\ callback = [status |-> "none", raised |-> FALSE, calls |-> 0]

\* EmployeeMonitor.__init__: "self._next_random_shot_at = 0.0"
ShotIdle ==
  /\ wall = 0
  /\ next_random_shot_at = 0
  /\ shot = [caller |-> "none"]

\* EmployeeMonitor.__init__: "self.activity_detector = ActivityDetector()"
Init ==
  /\ BufInit /\ StoreIdle /\ MonIdle /\ TablesIdle /\ ShotIdle
  /\ DetectorIdle(NoCallback)

\* ActivityDetector(on_status_change=f), in an EmployeeMonitor.
CallbackInit ==
  /\ BufInit /\ StoreIdle /\ MonIdle /\ TablesIdle /\ ShotIdle
  /\ DetectorIdle("f")

(* ------------------------------------------------------------------ *)
(* start()                                                             *)
(* ------------------------------------------------------------------ *)

\* EmployeeMonitor.start -> ActivityDetector.start: is_running, the listeners,
\* the batch and status threads, then the monitoring thread.
Start ==
  /\ pc["main"] = "init"
  /\ is_running' = TRUE
  /\ mon_running' = TRUE
  /\ listener_on' = [t \in Recorders |-> TRUE]
  /\ pc' = [t \in Threads |->
              IF t = "main" THEN "running"
              ELSE IF t \in Recorders THEN "idle"
              ELSE IF t = "batch" THEN "loop_test"
              ELSE IF t = "status" THEN "st_test"
              ELSE "mon_test"]
  /\ UNCHANGED <<movement_events, lock, db_lock, movement_logs, idx, txn,
                 shutdown_event, current_status, nrec, failures,
                 explicit_flush, flush_failed, accepted_at_return, storevars, restvars>>

(* ------------------------------------------------------------------ *)
(* The input callbacks and _add_event                                  *)
(* ------------------------------------------------------------------ *)

\* _on_key_press / _on_mouse_move / _on_mouse_click build an event and call
\* _add_event, which first waits for the lock.
Callback(t) ==
  /\ pc[t] = "idle"
  /\ listener_on[t]
  /\ \/ nrec < MaxSingles
     \/ BurstLen <= nrec /\ nrec < BurstLen + MaxSingles
  /\ pc' = [pc EXCEPT ![t] = "add_lock"]
  /\ UNCHANGED <<movement_events, lock, db_lock, movement_logs, idx, txn,
                 is_running, mon_running, shutdown_event, listener_on,
                 current_status, nrec, failures, explicit_flush, flush_failed,
                 accepted_at_return, storevars, restvars>>

\* "with self.lock:"
AddAcquire(t) ==
  /\ pc[t] = "add_lock"
  /\ lock = "free"
  /\ lock' = t
  /\ pc' = [pc EXCEPT ![t] = "add_append"]
  /\ UNCHANGED <<movement_events, db_lock, movement_logs, idx, txn,
                 is_running, mon_running, shutdown_event, listener_on,
                 current_status, nrec, failures, explicit_flush, flush_failed,
                 accepted_at_return, storevars, restvars>>

\* "self.movement_events.append(event)": the record is accepted and gets the
\* next identity.
AddAppend(t) ==
  /\ pc[t] = "add_append"
  /\ movement_events' = Append(movement_events, nrec + 1)
  /\ nrec' = nrec + 1
  /\ pc' = [pc EXCEPT ![t] = "add_len"]
  /\ UNCHANGED <<lock, db_lock, movement_logs, idx, txn,
                 is_running, mon_running, shutdown_event, listener_on,
                 current_status, failures, explicit_flush, flush_failed,
                 accepted_at_return, storevars, restvars>>

\* "if len(self.movement_events) >= 50: self._flush_batch()", else the "with"
\* block ends and the lock is released.
AddLenCheck(t) ==
  /\ pc[t] = "add_len"
  /\ IF ReachedThreshold(Len(movement_events))
       THEN /\ pc' = [pc EXCEPT ![t] = "flush_check"]
            /\ lock' = lock
       ELSE /\ pc' = [pc EXCEPT ![t] = "idle"]
            /\ lock' = "free"
  /\ UNCHANGED <<movement_events, db_lock, movement_logs, idx, txn,
                 is_running, mon_running, shutdown_event, listener_on,
                 current_status, nrec, failures, explicit_flush, flush_failed,
                 accepted_at_return, storevars, restvars>>

\* The "with" block ends after the inline flush returned.
AddRelease(t) ==
  /\ pc[t] = "add_release"
  /\ lock' = "free"
  /\ pc' = [pc EXCEPT ![t] = "idle"]
  /\ UNCHANGED <<movement_events, db_lock, movement_logs, idx, txn,
                 is_running, mon_running, shutdown_event, listener_on,
                 current_status, nrec, failures, explicit_flush, flush_failed,
                 accepted_at_return, storevars, restvars>>

\* One listener thread runs BurstLen callbacks to completion while no other
\* thread is scheduled: BurstLen executions of _add_event, none of which
\* reaches the threshold.
RecordBurst(t) ==
  /\ pc[t] = "idle"
  /\ listener_on[t]
  /\ lock = "free"
  /\ nrec = 0
  /\ movement_events = <<>>
  /\ MaxSingles < BurstLen /\ BurstLen < FLUSH_THRESHOLD
  /\ movement_events' = [i \in 1..BurstLen |-> i]
  /\ nrec' = BurstLen
  /\ UNCHANGED <<lock, db_lock, movement_logs, pc, idx, txn,
                 is_running, mon_running, shutdown_event, listener_on,
                 current_status, failures, explicit_flush, flush_failed,
                 accepted_at_return, storevars, restvars>>

(* ------------------------------------------------------------------ *)
(* _flush_batch and log_movement_batch, run by thread t                *)
(* ------------------------------------------------------------------ *)

\* "if self.movement_events:"
FlushCheck(t) ==
  /\ pc[t] = "flush_check"
  /\ pc' = [pc EXCEPT ![t] = IF movement_events # <<>> THEN "lmb_check"
                                ELSE AfterFlush(t)]
  /\ UNCHANGED <<movement_events, lock, db_lock, movement_logs, idx, txn,
                 is_running, mon_running, shutdown_event, listener_on,
                 current_status, nrec, failures, explicit_flush, flush_failed,
                 accepted_at_return, storevars, restvars>>

\* log_movement_batch is handed the list itself: "if not events: return".
LmbCheck(t) ==
  /\ pc[t] = "lmb_check"
  /\ pc' = [pc EXCEPT ![t] = IF movement_events = <<>> THEN "flush_clear"
                                ELSE "lmb_lock"]
  /\ UNCHANGED <<movement_events, lock, db_lock, movement_logs, idx, txn,
                 is_running, mon_running, shutdown_event, listener_on,
                 current_status, nrec, failures, explicit_flush, flush_failed,
                 accepted_at_return, storevars, restvars>>

\* "with _DB_LOCK:" and a new connection; the for loop's iterator starts at 0.
LmbAcquire(t) ==
  /\ pc[t] = "lmb_lock"
  /\ db_lock = "free"
  /\ db_lock' = t
  /\ idx' = [idx EXCEPT ![t] = 0]
  /\ txn' = [txn EXCEPT ![t] = <<>>]
  /\ pc' = [pc EXCEPT ![t] = "lmb_iter"]
  /\ UNCHANGED <<movement_events, lock, movement_logs,
                 is_running, mon_running, shutdown_event, listener_on,
                 current_status, nrec, failures, explicit_flush, flush_failed,
                 accepted_at_return, storevars, restvars>>

Min(a, b) == IF a < b THEN a ELSE b

\* "for ts, event_type, detail, distance in events": the list iterator yields
\* events[idx] while idx < len(events), as the list is at that moment, and each
\* row is inserted in the open transaction. One step runs up to IterChunk
\* iterations; the loop ends when the iterator finds idx >= len(events).
LmbIter(t) ==
  /\ pc[t] = "lmb_iter"
  /\ IF idx[t] < Len(movement_events)
       THEN LET upto == Min(Len(movement_events), idx[t] + IterChunk) IN
            /\ txn' = [txn EXCEPT ![t] =
                         @ \o SubSeq(movement_events, idx[t] + 1, upto)]
            /\ idx' = [idx EXCEPT ![t] = upto]
            /\ pc' = pc
       ELSE /\ pc' = [pc EXCEPT ![t] = "lmb_commit"]
            /\ UNCHANGED <<idx, txn>>
  /\ UNCHANGED <<movement_events, lock, db_lock, movement_logs,
                 is_running, mon_running, shutdown_event, listener_on,
                 current_status, nrec, failures, explicit_flush, flush_failed,
                 accepted_at_return, storevars, restvars>>

\* Rows a commit adds to the table.
CommittedNothing(rows, t) == rows
Committed(rows, t) == rows \o txn[t]

\* "conn.commit(); conn.close()" and the end of "with _DB_LOCK".
LmbCommit(t) ==
  /\ pc[t] = "lmb_commit"
  /\ movement_logs' = Committed(movement_logs, t)
  /\ txn' = [txn EXCEPT ![t] = <<>>]
  /\ idx' = [idx EXCEPT ![t] = 0]
  /\ db_lock' = "free"
  /\ pc' = [pc EXCEPT ![t] = "flush_clear"]
  /\ UNCHANGED <<movement_events, lock,
                 is_running, mon_running, shutdown_event, listener_on,
                 current_status, nrec, failures, explicit_flush, flush_failed,
                 accepted_at_return, storevars, restvars>>

\* "self.movement_events.clear()", then _flush_batch returns.
FlushClear(t) ==
  /\ pc[t] = "flush_clear"
  /\ movement_events' = <<>>
  /\ pc' = [pc EXCEPT ![t] = AfterFlush(t)]
  /\ UNCHANGED <<lock, db_lock, movement_logs, idx, txn,
                 is_running, mon_running, shutdown_event, listener_on,
                 current_status, nrec, failures, explicit_flush, flush_failed,
                 accepted_at_return, storevars, restvars>>

\* The store rejects the write (connect, an INSERT or the commit raises): the
\* transaction is never committed, "with _DB_LOCK" releases the lock and the
\* exception leaves log_movement_batch and _flush_batch before clear() runs.
\* In a listener thread it also leaves "with self.lock".
StoreFailure(t) ==
  /\ pc[t] \in {"lmb_iter", "lmb_commit"}
  /\ failures < MaxFailures
  /\ failures' = failures + 1
  /\ txn' = [txn EXCEPT ![t] = <<>>]
  /\ idx' = [idx EXCEPT ![t] = 0]
  /\ db_lock' = "free"
  /\ lock' = IF t \in Recorders THEN "free" ELSE lock
  /\ flush_failed' = flush_failed \cup {t}
  /\ pc' = [pc EXCEPT ![t] = AfterRaise(t)]
  /\ UNCHANGED <<movement_events, movement_logs,
                 is_running, mon_running, shutdown_event, listener_on,
                 current_status, nrec, explicit_flush,
                 accepted_at_return, storevars, restvars>>

\* An exception left a callback: pynput decides whether the listener thread
\* goes on delivering input or ends.
CallbackRaised(t) ==
  /\ pc[t] = "cb_raised"
  /\ \E next \in {"idle", "dead"} : pc' = [pc EXCEPT ![t] = next]
  /\ UNCHANGED <<movement_events, lock, db_lock, movement_logs, idx, txn,
                 is_running, mon_running, shutdown_event, listener_on,
                 current_status, nrec, failures, explicit_flush, flush_failed,
                 accepted_at_return, storevars, restvars>>

(* ------------------------------------------------------------------ *)
(* The background loops                                                *)
(* ------------------------------------------------------------------ *)

\* _batch_loop: "while self.is_running: time.sleep(MOVEMENT_BATCH_INTERVAL)"
BatchLoopTest ==
  /\ pc["batch"] = "loop_test"
  /\ pc' = [pc EXCEPT !["batch"] = IF is_running THEN "sleeping" ELSE "done"]
  /\ UNCHANGED <<movement_events, lock, db_lock, movement_logs, idx, txn,
                 is_running, mon_running, shutdown_event, listener_on,
                 current_status, nrec, failures, explicit_flush, flush_failed,
                 accepted_at_return, storevars, restvars>>

\* _batch_loop: the sleep ends and "self._flush_batch()" is called, the lock
\* not taken.
BatchWake ==
  /\ pc["batch"] = "sleeping"
  /\ pc' = [pc EXCEPT !["batch"] = "flush_check"]
  /\ explicit_flush' = TRUE
  /\ UNCHANGED <<movement_events, lock, db_lock, movement_logs, idx, txn,
                 is_running, mon_running, shutdown_event, listener_on,
                 current_status, nrec, failures, flush_failed,
                 accepted_at_return, storevars, restvars>>

\* _status_loop: "while self.is_running: time.sleep(1)"
StatusLoopTest ==
  /\ pc["status"] = "st_test"
  /\ pc' = [pc EXCEPT !["status"] = IF is_running THEN "st_sleep" ELSE "done"]
  /\ UNCHANGED <<movement_events, lock, db_lock, movement_logs, idx, txn,
                 is_running, mon_running, shutdown_event, listener_on,
                 current_status, nrec, failures, explicit_flush, flush_failed,
                 accepted_at_return, storevars, restvars>>

ChangedAlways(status, recorded) == TRUE

\* "if status != self._current_status"
Changed(status, recorded) == status # recorded

\* _status_loop: get_status() under the lock (the status depends on the time
\* since the last input); on a change the status is recorded and then the
\* callback, if there is one, is called, its exception caught and logged.
\* The history counts the calls modulo 2.
StatusTick ==
  /\ pc["status"] = "st_sleep"
  /\ lock = "free"
  /\ \E status \in {"active", "idle"}, callback_raises \in BOOLEAN :
       /\ current_status' =
            IF Changed(status, current_status) THEN status ELSE current_status
       /\ callback' =
            IF Changed(status, current_status) /\ on_status_change # NoCallback
              THEN [status |-> status, raised |-> callback_raises,
                    calls |-> (callback.calls + 1) % 2]
              ELSE callback
  /\ pc' = [pc EXCEPT !["status"] = "st_test"]
  /\ UNCHANGED <<movement_events, lock, db_lock, movement_logs, idx, txn,
                 is_running, mon_running, shutdown_event, listener_on,
                 nrec, failures, explicit_flush, flush_failed,
                 accepted_at_return, storevars, monvars, tablevars,
                 on_status_change, shotvars>>

\* _monitoring_loop: "while self.is_running and not self.shutdown_event.is_set()"
MonLoopTest ==
  /\ pc["monitor"] = "mon_test"
  /\ pc' = [pc EXCEPT !["monitor"] =
              IF mon_running /\ ~shutdown_event THEN "mon_body" ELSE "done"]
  /\ UNCHANGED <<movement_events, lock, db_lock, movement_logs, idx, txn,
                 is_running, mon_running, shutdown_event, listener_on,
                 current_status, nrec, failures, explicit_flush, flush_failed,
                 accepted_at_return, storevars, restvars>>

\* _monitoring_loop: one pass of the try block, which starts with get_status()
\* under the lock; it ends at time.sleep(ACTIVITY_CHECK_INTERVAL), or an
\* exception takes it to the handler's time.sleep(10).
MonTick ==
  /\ pc["monitor"] = "mon_body"
  /\ lock = "free"
  /\ \E raises \in BOOLEAN :
       pc' = [pc EXCEPT !["monitor"] = IF raises THEN "mon_backoff" ELSE "mon_sleep"]
  /\ UNCHANGED <<movement_events, lock, db_lock, movement_logs, idx, txn,
                 is_running, mon_running, shutdown_event, listener_on,
                 current_status, nrec, failures, explicit_flush, flush_failed,
                 accepted_at_return, storevars, restvars>>

\* _monitoring_loop: either sleep ends and the loop condition is next.
MonSleepEnds ==
  /\ pc["monitor"] \in {"mon_sleep", "mon_backoff"}
  /\ pc' = [pc EXCEPT !["monitor"] = "mon_test"]
  /\ UNCHANGED <<movement_events, lock, db_lock, movement_logs, idx, txn,
                 is_running, mon_running, shutdown_event, listener_on,
                 current_status, nrec, failures, explicit_flush, flush_failed,
                 accepted_at_return, storevars, restvars>>

(* ------------------------------------------------------------------ *)
(* stop()                                                              *)
(* ------------------------------------------------------------------ *)

\* EmployeeMonitor.stop: "self.is_running = False; self.shutdown_event.set()"
StopSignal ==
  /\ pc["main"] = "running"
  /\ mon_running' = FALSE
  /\ shutdown_event' = TRUE
  /\ pc' = [pc EXCEPT !["main"] = "det_stop"]
  /\ UNCHANGED <<movement_events, lock, db_lock, movement_logs, idx, txn,
                 is_running, listener_on,
                 current_status, nrec, failures, explicit_flush, flush_failed,
                 accepted_at_return, storevars, restvars>>

\* ActivityDetector.stop: "self.is_running = False", then "self._flush_batch()"
\* is called, the lock not taken.
DetStop ==
  /\ pc["main"] = "det_stop"
  /\ is_running' = FALSE
  /\ explicit_flush' = TRUE
  /\ pc' = [pc EXCEPT !["main"] = "flush_check"]
  /\ UNCHANGED <<movement_events, lock, db_lock, movement_logs, idx, txn,
                 mon_running, shutdown_event, listener_on,
                 current_status, nrec, failures, flush_failed,
                 accepted_at_return, storevars, restvars>>

\* ActivityDetector.stop: both listeners are told to stop; a callback under way
\* runs to its end.
StopListeners ==
  /\ pc["main"] = "stop_listeners"
  /\ listener_on' = [t \in Recorders |-> FALSE]
  /\ pc' = [pc EXCEPT !["main"] = "join_batch"]
  /\ UNCHANGED <<movement_events, lock, db_lock, movement_logs, idx, txn,
                 is_running, mon_running, shutdown_event,
                 current_status, nrec, failures, explicit_flush, flush_failed,
                 accepted_at_return, storevars, restvars>>

\* "self.batch_thread.join(timeout=5)": returns when the thread has ended or
\* the timeout has passed.
JoinBatch ==
  /\ pc["main"] = "join_batch"
  /\ pc' = [pc EXCEPT !["main"] = "join_status"]
  /\ UNCHANGED <<movement_events, lock, db_lock, movement_logs, idx, txn,
                 is_running, mon_running, shutdown_event, listener_on,
                 current_status, nrec, failures, explicit_flush, flush_failed,
                 accepted_at_return, storevars, restvars>>

\* "self.status_thread.join(timeout=5)", and ActivityDetector.stop returns.
JoinStatus ==
  /\ pc["main"] = "join_status"
  /\ pc' = [pc EXCEPT !["main"] = "join_monitor"]
  /\ accepted_at_return' = nrec
  /\ UNCHANGED <<movement_events, lock, db_lock, movement_logs, idx, txn,
                 is_running, mon_running, shutdown_event, listener_on,
                 current_status, nrec, failures, explicit_flush, flush_failed,
                 storevars, restvars>>

\* EmployeeMonitor.stop: the handlers' stop() and
\* "self.thread.join(timeout=5)"; the daily report follows.
JoinMonitor ==
  /\ pc["main"] = "join_monitor"
  /\ pc' = [pc EXCEPT !["main"] = "stopped"]
  /\ UNCHANGED <<movement_events, lock, db_lock, movement_logs, idx, txn,
                 is_running, mon_running, shutdown_event, listener_on,
                 current_status, nrec, failures, explicit_flush, flush_failed,
                 accepted_at_return, storevars, restvars>>

(* ------------------------------------------------------------------ *)
(* Specifications                                                      *)
(* ------------------------------------------------------------------ *)

\* _add_event in the listener threads.
RecorderStep ==
  \/ \E t \in Recorders : Callback(t)
  \/ \E t \in Recorders : AddAcquire(t)
  \/ \E t \in Recorders : AddAppend(t)
  \/ \E t \in Recorders : AddLenCheck(t)
  \/ \E t \in Recorders : AddRelease(t)

\* _flush_batch in whichever thread called it.
FlushStep ==
  \/ \E t \in Flushers : FlushCheck(t)
  \/ \E t \in Flushers : LmbCheck(t)
  \/ \E t \in Flushers : LmbAcquire(t)
  \/ \E t \in Flushers : LmbIter(t)
  \/ \E t \in Flushers : LmbCommit(t)
  \/ \E t \in Flushers : FlushClear(t)

\* EmployeeMonitor.stop in the main thread.
StopStep ==
  \/ StopSignal
  \/ DetStop
  \/ StopListeners
  \/ JoinBatch
  \/ JoinStatus
  \/ JoinMonitor

\* The movement batch with a store that accepts every write: the listener
\* threads, the batch timer and the main thread.
AcceptingNext ==
  \/ Start
  \/ \E t \in Recorders : RecordBurst(t)
  \/ RecorderStep
  \/ FlushStep
  \/ BatchLoopTest
  \/ BatchWake
  \/ StopStep

AcceptingSpec == Init /\ [][AcceptingNext]_vars

\* The same with a store that may reject a write.
Next ==
  \/ AcceptingNext
  \/ \E t \in Flushers : StoreFailure(t)
  \/ \E t \in Recorders : CallbackRaised(t)

Spec == Init /\ [][Next]_vars

\* generate_daily_report, called by stop() after the joins: get_global_summary
\* reaches "with _DB_LOCK:".
ReportCall ==
  /\ pc["main"] = "stopped"
  /\ reader = "out"
  /\ reader' = "lock"
  /\ UNCHANGED <<bufvars, events, now, log_call, restvars>>

\* "with _DB_LOCK:" in get_global_summary: the RLock is taken when no other
\* thread holds it.
ReportAcquire ==
  /\ reader = "lock"
  /\ db_lock = "free"
  /\ db_lock' = "main"
  /\ reader' = "select"
  /\ UNCHANGED <<movement_events, lock, movement_logs, pc, idx, txn,
                 is_running, mon_running, shutdown_event, listener_on,
                 current_status, nrec, failures, explicit_flush, flush_failed,
                 accepted_at_return, events, now, log_call, restvars>>

\* get_global_summary calls get_all_employees_status inside its block:
\* "with _DB_LOCK:" again, in the thread that owns the RLock.
ReportNestedAcquire ==
  /\ reader = "select"
  /\ db_lock \in {"free", "main"}
  /\ db_lock' = "main"
  /\ reader' = "nested"
  /\ UNCHANGED <<movement_events, lock, movement_logs, pc, idx, txn,
                 is_running, mon_running, shutdown_event, listener_on,
                 current_status, nrec, failures, explicit_flush, flush_failed,
                 accepted_at_return, events, now, log_call, restvars>>

\* The inner block ends: the RLock is released once and stays owned.
ReportNestedRelease ==
  /\ reader = "nested"
  /\ reader' = "selected"
  /\ UNCHANGED <<bufvars, events, now, log_call, restvars>>

\* The SELECTs of get_global_summary, conn.close() and the end of
\* "with _DB_LOCK".
ReportRelease ==
  /\ reader = "selected"
  /\ db_lock' = "free"
  /\ reader' = "done"
  /\ UNCHANGED <<movement_events, lock, movement_logs, pc, idx, txn,
                 is_running, mon_running, shutdown_event, listener_on,
                 current_status, nrec, failures, explicit_flush, flush_failed,
                 accepted_at_return, events, now, log_call, restvars>>

ReportStep ==
  \/ ReportCall
  \/ ReportAcquire
  \/ ReportNestedAcquire
  \/ ReportNestedRelease
  \/ ReportRelease

\* The three background loops and stop(), the input arriving as one burst.
LoopNext ==
  \/ Start
  \/ \E t \in Recorders : RecordBurst(t)
  \/ FlushStep
  \/ \E t \in Flushers : StoreFailure(t)
  \/ BatchLoopTest
  \/ BatchWake
  \/ StatusLoopTest
  \/ StatusTick
  \/ MonLoopTest
  \/ MonTick
  \/ MonSleepEnds
  \/ StopStep

LoopSpec == Init /\ [][LoopNext]_vars

\* The same loops around a detector that has a callback.
CallbackSpec == CallbackInit /\ [][LoopNext]_vars

\* What the scheduler owes the threads: a thread that can take its next
\* statement takes it, a sleep ends, a join returns when the thread has ended
\* or after its timeout.  Input, the call of stop() and the failure of a
\* write are owed to nobody.
LoopFairness ==
  /\ \A t \in Flushers :
       WF_vars(FlushCheck(t) \/ LmbCheck(t) \/ LmbAcquire(t) \/ LmbIter(t)
                 \/ LmbCommit(t) \/ FlushClear(t))
  /\ WF_vars(BatchLoopTest \/ BatchWake)
  /\ WF_vars(StatusLoopTest \/ StatusTick)
  /\ WF_vars(MonLoopTest \/ MonTick \/ MonSleepEnds)
  /\ WF_vars(DetStop \/ StopListeners \/ JoinBatch \/ JoinStatus
               \/ JoinMonitor)

LoopFairSpec == LoopSpec /\ LoopFairness

\* Every thread that takes ActivityDetector.lock or _DB_LOCK: the mouse
\* listener (its input one burst, then single callbacks up to the threshold
\* of the inline flush), the batch timer,
\* the status poll, the monitoring loop, stop() and the queries of its daily
\* report.
LockingNext ==
  \/ Start
  \/ RecordBurst("mouse")
  \/ BurstLen <= nrec /\ nrec < FLUSH_THRESHOLD /\ Callback("mouse")
  \/ AddAcquire("mouse")
  \/ AddAppend("mouse")
  \/ AddLenCheck("mouse")
  \/ AddRelease("mouse")
  \/ FlushStep
  \/ BatchLoopTest
  \/ BatchWake
  \/ StatusLoopTest
  \/ StatusTick
  \/ MonLoopTest
  \/ MonTick
  \/ MonSleepEnds
  \/ StopStep
  \/ ReportStep

LockingSpec == Init /\ [][LockingNext]_vars

\* The same, followed by the daily report of stop().
ReaderNext ==
  \/ LoopNext
  \/ ReportStep

ReaderSpec == Init /\ [][ReaderNext]_vars

(* ------------------------------------------------------------------ *)
(* Strings                                                             *)
(*                                                                     *)
(* A Python str is the sequence of its characters; None (SQL NULL) is  *)
(* the value NULL, which is no string.                                 *)
(* ------------------------------------------------------------------ *)

TruthyNotNone(s) == s # NULL

\* Python truthiness of an optional str: None and '' are false.
Truthy(s) == s # NULL /\ s # <<>>

UpperCase == <<"A", "B", "C", "D", "E", "F", "G", "H", "I", "J", "K", "L", "M", "N", "O", "P", "Q", "R", "S", "T", "U", "V", "W", "X", "Y", "Z">>
LowerCase == <<"a", "b", "c", "d", "e", "f", "g", "h", "i", "j", "k", "l", "m", "n", "o", "p", "q", "r", "s", "t", "u", "v", "w", "x", "y", "z">>

\* str.lower(), on the letters of the model's alphabet.
LowerChar(c) ==
  IF \E i \in 1..Len(UpperCase) : UpperCase[i] = c
    THEN LowerCase[CHOOSE i \in 1..Len(UpperCase) : UpperCase[i] = c]
    ELSE c

Lower(s) == [i \in 1..Len(s) |-> LowerChar(s[i])]

IsSpace(c) == c = " "

RECURSIVE LStrip(_)
LStrip(s) == IF s # <<>> /\ IsSpace(Head(s)) THEN LStrip(Tail(s)) ELSE s

RECURSIVE RStrip(_)
RStrip(s) ==
  IF s # <<>> /\ IsSpace(s[Len(s)]) THEN RStrip(SubSeq(s, 1, Len(s) - 1)) ELSE s

\* str.strip()
Strip(s) == RStrip(LStrip(s))

\* sub occurs in s at index i
OccursAt(s, sub, i) ==
  /\ i >= 1
  /\ i + Len(sub) - 1 <= Len(s)
  /\ SubSeq(s, i, i + Len(sub) - 1) = sub

\* "sub in s"
Contains(s, sub) == \E i \in 1..(Len(s) + 1) : OccursAt(s, sub, i)

\* Index of the first occurrence of sub in s (sub in s).
FirstIndex(s, sub) ==
  CHOOSE i \in 1..(Len(s) + 1) :
    OccursAt(s, sub, i) /\ \A j \in 1..(i - 1) : ~OccursAt(s, sub, j)

\* s.split(sep), sep not empty
RECURSIVE Split(_, _)
Split(s, sep) ==
  IF ~Contains(s, sep) THEN <<s>>
  ELSE LET i == FirstIndex(s, sep) IN
       <<SubSeq(s, 1, i - 1)>> \o Split(SubSeq(s, i + Len(sep), Len(s)), sep)

\* s.replace(c, '') for one character c
RemoveChar(s, c) == SelectSeq(s, LAMBDA x : x # c)

\* s.endswith(suffix)
EndsWith(s, suffix) ==
  Len(suffix) <= Len(s) /\ SubSeq(s, Len(s) - Len(suffix) + 1, Len(s)) = suffix

Last(parts) == parts[Len(parts)]

\* s.split(): the runs of non-whitespace characters
RECURSIVE Words(_)
Words(s) ==
  LET t == LStrip(s) IN
  IF t = <<>> THEN <<>>
  ELSE LET n == IF \E i \in 1..Len(t) : IsSpace(t[i])
                  THEN (CHOOSE i \in 1..Len(t) :
                          IsSpace(t[i]) /\ \A j \in 1..(i - 1) : ~IsSpace(t[j])) - 1
                  ELSE Len(t)
       IN <<SubSeq(t, 1, n)>> \o Words(SubSeq(t, n + 1, Len(t)))

(* ------------------------------------------------------------------ *)
(* get_apps_usage._normalize and get_apps_usage._display_from           *)
(* ------------------------------------------------------------------ *)

\* "for sep in [' - ', ' | ', ' <em-dash> ', ' :: ']"
TitleSeparators == <<<<" ", "-", " ">>, <<" ", "|", " ">>, <<" ", "<em-dash>", " ">>, <<" ", ":", ":", " ">>>>

ZeroWidthSpace == "<zwsp>"

\* The aliases dict, in its insertion order.
Aliases == <<
  <<<<"c", "h", "r", "o", "m", "e">>, <<"c", "h", "r", "o", "m", "e">>>>,
  <<<<"m", "s", "e", "d", "g", "e">>, <<"e", "d", "g", "e">>>>,
  <<<<"m", "i", "c", "r", "o", "s", "o", "f", "t", " ", "e", "d", "g", "e">>, <<"e", "d", "g", "e">>>>,
  <<<<"b", "r", "a", "v", "e">>, <<"b", "r", "a", "v", "e">>>>,
  <<<<"f", "i", "r", "e", "f", "o", "x">>, <<"f", "i", "r", "e", "f", "o", "x">>>>,
  <<<<"o", "p", "e", "r", "a">>, <<"o", "p", "e", "r", "a">>>>,
  <<<<"c", "o", "d", "e">>, <<"v", "s", "c", "o", "d", "e">>>>,
  <<<<"v", "i", "s", "u", "a", "l", " ", "s", "t", "u", "d", "i", "o", " ", "c", "o", "d", "e">>, <<"v", "s", "c", "o", "d", "e">>>>,
  <<<<"w", "i", "n", "w", "o", "r", "d">>, <<"w", "o", "r", "d">>>>,
  <<<<"w", "o", "r", "d">>, <<"w", "o", "r", "d">>>>,
  <<<<"e", "x", "c", "e", "l">>, <<"e", "x", "c", "e", "l">>>>,
  <<<<"p", "o", "w", "e", "r", "p", "n", "t">>, <<"p", "o", "w", "e", "r", "p", "o", "i", "n", "t">>>>,
  <<<<"p", "o", "w", "e", "r", "p", "o", "i", "n", "t">>, <<"p", "o", "w", "e", "r", "p", "o", "i", "n", "t">>>>,
  <<<<"o", "u", "t", "l", "o", "o", "k">>, <<"o", "u", "t", "l", "o", "o", "k">>>>,
  <<<<"t", "e", "a", "m", "s">>, <<"t", "e", "a", "m", "s">>>>,
  <<<<"s", "l", "a", "c", "k">>, <<"s", "l", "a", "c", "k">>>>,
  <<<<"d", "i", "s", "c", "o", "r", "d">>, <<"d", "i", "s", "c", "o", "r", "d">>>>,
  <<<<"e", "x", "p", "l", "o", "r", "e", "r">>, <<"e", "x", "p", "l", "o", "r", "e", "r">>>>,
  <<<<"n", "o", "t", "e", "p", "a", "d">>, <<"n", "o", "t", "e", "p", "a", "d">>>>,
  <<<<"n", "o", "t", "e", "p", "a", "d", "+", "+">>, <<"n", "o", "t", "e", "p", "a", "d", "+", "+">>>>,
  <<<<"p", "y", "c", "h", "a", "r", "m">>, <<"p", "y", "c", "h", "a", "r", "m">>>>,
  <<<<"i", "d", "e", "a", "6", "4">>, <<"i", "n", "t", "e", "l", "l", "i", "j">>>>,
  <<<<"s", "t", "u", "d", "i", "o", "6", "4">>, <<"a", "n", "d", "r", "o", "i", "d", "-", "s", "t", "u", "d", "i", "o">>>>,
  <<<<"z", "o", "o", "m">>, <<"z", "o", "o", "m">>>>,
  <<<<"w", "h", "a", "t", "s", "a", "p", "p">>, <<"w", "h", "a", "t", "s", "a", "p", "p">>>>,
  <<<<"t", "e", "l", "e", "g", "r", "a", "m">>, <<"t", "e", "l", "e", "g", "r", "a", "m">>>>
>>

\* What IndexError leaves in place of a key.
IndexError == <<"<IndexError>">>

\* One round of "if sep in n: n = n.split(sep)[-1] if len(n.split(sep)[-1]) < 8
\* else n.split(sep)[0]"
CutAtSeparator(n, sep) ==
  IF Contains(n, sep)
    THEN IF Len(Last(Split(n, sep))) < 8 THEN Last(Split(n, sep))
         ELSE Split(n, sep)[1]
    ELSE n

RECURSIVE CutAtSeparators(_, _)
CutAtSeparators(n, k) ==
  IF k > Len(TitleSeparators) THEN n
  ELSE CutAtSeparators(CutAtSeparator(n, TitleSeparators[k]), k + 1)

\* "if n.endswith('.exe'): n = n[:-4]"
StripExe(n) ==
  IF EndsWith(n, <<".", "e", "x", "e">>) THEN SubSeq(n, 1, Len(n) - 4) ELSE n

\* "n.split('\\')[-1].split('/')[-1]"
BaseName(n) == Last(Split(Last(Split(n, <<"\\">>)), <<"/">>))

\* "for k, v in aliases.items(): if k in n: return v", then "n.split()[0]",
\* which raises IndexError when n holds no word.
AliasOrFirstWord(n) ==
  IF \E i \in 1..Len(Aliases) : Contains(n, Aliases[i][1])
    THEN Aliases[CHOOSE i \in 1..Len(Aliases) :
                   /\ Contains(n, Aliases[i][1])
                   /\ \A j \in 1..(i - 1) : ~Contains(n, Aliases[j][1])][2]
    ELSE IF Words(n) = <<>> THEN IndexError ELSE Words(n)[1]

\* _normalize(name)
Normalize(name) ==
  IF ~Truthy(name) THEN <<"u", "n", "k", "n", "o", "w", "n">>
  ELSE AliasOrFirstWord(
         BaseName(StripExe(Lower(Strip(RemoveChar(
           CutAtSeparators(Strip(name), 1), ZeroWidthSpace))))))

HasSlash(p) == \E i \in 1..Len(p) : p[i] \in {"/", "\\"}

\* min(parts, key=len): the first of the shortest
Shortest(parts) ==
  parts[CHOOSE i \in 1..Len(parts) :
          /\ \A j \in 1..Len(parts) : Len(parts[i]) <= Len(parts[j])
          /\ \A j \in 1..(i - 1) : Len(parts[j]) > Len(parts[i])]

\* The first separator of the list that occurs in txt, 0 if none does.
FirstSeparatorIn(txt) ==
  IF \E k \in 1..Len(TitleSeparators) : Contains(txt, TitleSeparators[k])
    THEN CHOOSE k \in 1..Len(TitleSeparators) :
           /\ Contains(txt, TitleSeparators[k])
           /\ \A j \in 1..(k - 1) : ~Contains(txt, TitleSeparators[j])
    ELSE 0

\* _display_from(raw)
DisplayFrom(raw) ==
  IF ~Truthy(raw) THEN <<"U", "n", "k", "n", "o", "w", "n">>
  ELSE LET txt == Strip(raw)
           k == FirstSeparatorIn(txt)
           parts == IF k = 0 THEN <<txt>> ELSE Split(txt, TitleSeparators[k])
           kept == SelectSeq(parts, LAMBDA p : ~HasSlash(p))
           chosen == IF k = 0 THEN txt
                     ELSE Shortest(IF kept # <<>> THEN kept ELSE <<txt>>)
       IN SubSeq(chosen, 1, IF Len(chosen) < 80 THEN Len(chosen) ELSE 80)

(* ------------------------------------------------------------------ *)
(* The events table                                                    *)
(*                                                                     *)
(* A timestamp is a number of clock ticks; TicksPerCenti ticks make    *)
(* 0.01 minute.  utcnow().isoformat() gives fixed-layout text whose    *)
(* order as text is the order of the instants, so the SQL comparisons  *)
(* on the timestamp column are comparisons of ticks.                   *)
(* ------------------------------------------------------------------ *)

\* Rows of table events in one run.
MaxEvents == 2

\* Last tick of the clock.
MaxTime == 4

\* Ticks in 0.01 minute: the resolution of round(x, 2) on minutes.
TicksPerCenti == 3

\* Ticks in one calendar day.
DayLen == 3

\* event_type values written by EmployeeMonitor._monitoring_loop
ActiveKinds == {"active", "window_change", "non_work_detected"}
IdleKinds == {"idle", "idle_photo"}
Kinds == ActiveKinds \cup IdleKinds

\* (active_window, process_name) pairs read from the foreground window
Contexts == {
  <<<<"D", "o", "c", "s", " ", "-", " ", "C", "h", "r", "o", "m", "e">>,
    <<"c", "h", "r", "o", "m", "e", ".", "e", "x", "e">>>>,
  <<<<"a", ".", "t", "x", "t", " ", "-", " ", "N", "o", "t", "e", "p", "a", "d">>,
    NULL>> }

Row(emp, ts, kind, ctx) ==
  [employee_id |-> emp, timestamp |-> ts, event_type |-> kind,
   active_window |-> ctx[1], process_name |-> ctx[2]]

\* The rows one call of log_event may insert at tick ts: any event of the
\* first employee, and an active event of the second one.
LoggableRows(ts) ==
  {Row("emp1", ts, k, c) : k \in Kinds, c \in Contexts}
    \cup {Row("emp2", ts, "active", c) : c \in {x \in Contexts : x[2] # NULL}}

\* The rows of the tables written while a timeline is recorded.
StoredRows == Len(events) + Len(movement_logs) + Len(screenshots)

\* Time passes, then log_event(...): timestamp defaults to
\* utcnow().isoformat(); INSERT, commit.  The employee has a row of table
\* employees ("FOREIGN KEY(employee_id) REFERENCES employees", foreign_keys
\* ON).
LogEvent ==
  /\ StoredRows < MaxEvents
  /\ \E ts \in now..MaxTime :
       /\ now' = ts
       /\ \E r \in LoggableRows(ts) :
            /\ employees[r.employee_id].present
            /\ events' = Append(events, r)
  /\ UNCHANGED <<bufvars, reader, log_call, restvars>>

StoreNext == LogEvent

StoreSpec == Init /\ [][StoreNext]_vars

(* ------------------------------------------------------------------ *)
(* Streams of minutes                                                  *)
(*                                                                     *)
(* The same table, fed with events that lie whole minutes apart: a     *)
(* browser and a word processor named by their window titles, events   *)
(* that carry no window, an empty title, and a browser named by its    *)
(* process with and without a title.                                   *)
(* ------------------------------------------------------------------ *)

\* m minutes, in ticks
Minutes(m) == m * 100 * TicksPerCenti

TitleChrome == <<<<"C", "h", "r", "o", "m", "e">>, NULL>>
TitleWord == <<<<"W", "o", "r", "d">>, NULL>>
NoWindow == <<NULL, NULL>>
EmptyTitle == <<<<>>, NULL>>
ProcessChrome == <<NULL, <<"c", "h", "r", "o", "m", "e", ".", "e", "x", "e">>>>
NewTabInChrome ==
  <<<<"G", "o", "o", "g", "l", "e", " ", "C", "h", "r", "o", "m", "e", " ",
      "-", " ", "N", "e", "w", " ", "T", "a", "b">>,
    <<"c", "h", "r", "o", "m", "e", ".", "e", "x", "e">>>>

ScenarioContexts ==
  {TitleChrome, TitleWord, NoWindow, EmptyTitle, ProcessChrome, NewTabInChrome}

\* The minutes that pass between two events.
ScenarioGaps == {0, 5, 10}

\* The ticks that pass between two events when applications are switched
\* quickly: those minutes, or one tick, which is less than 0.005 minute.
ScenarioSteps == {Minutes(g) : g \in ScenarioGaps} \cup {TicksPerCenti \div TicksPerCenti}

ScenarioRows(ts) ==
  {Row("emp1", ts, "window_change", TitleChrome),
   Row("emp1", ts, "window_change", TitleWord),
   Row("emp1", ts, "idle", NoWindow),
   Row("emp1", ts, "idle_photo", NoWindow),
   Row("emp1", ts, "active", NoWindow),
   Row("emp1", ts, "active", EmptyTitle),
   Row("emp1", ts, "active", ProcessChrome),
   Row("emp1", ts, "active", NewTabInChrome),
   Row("emp1", ts, "non_work_detected", TitleChrome)}

\* The events of the longest stream.
ScenarioLen == Len(<<"window_change", "idle", "window_change", "idle_photo">>)

\* Minutes pass, then log_event(...).
LogScenarioEvent ==
  /\ Len(events) < ScenarioLen
  /\ \E gap \in ScenarioGaps :
       /\ now' = now + Minutes(gap)
       /\ \E r \in ScenarioRows(now + Minutes(gap)) :
            events' = Append(events, r)
  /\ UNCHANGED <<bufvars, reader, log_call, restvars>>

ScenarioNext == LogScenarioEvent

ScenarioSpec == Init /\ [][ScenarioNext]_vars

\* The title of a file open in an editor.
ChromeFileInNotepad ==
  <<<<"c", "h", "r", "o", "m", "e", ".", "t", "x", "t", " ", "-", " ",
      "N", "o", "t", "e", "p", "a", "d">>, NULL>>

QuickContexts == ScenarioContexts \cup {ChromeFileInNotepad}

\* The rows of those streams: the same, a window_change to the editor, and
\* an active event of the second employee.
QuickRows(ts) ==
  ScenarioRows(ts)
    \cup {Row("emp1", ts, "window_change", ChromeFileInNotepad),
          Row("emp2", ts, "active", ProcessChrome)}

\* Minutes or one tick pass, then log_event(...).
LogQuickEvent ==
  /\ Len(events) < MaxEvents
  /\ \E step \in ScenarioSteps :
       /\ now' = now + step
       /\ \E r \in QuickRows(now + step) :
            events' = Append(events, r)
  /\ UNCHANGED <<bufvars, reader, log_call, restvars>>

QuickNext == LogQuickEvent

QuickSpec == Init /\ [][QuickNext]_vars

\* An event_type that _monitoring_loop never writes: log_event stores any
\* text in the column.
OtherKind == "login"

\* The rows of the streams with such events.
OtherKindRows(ts) ==
  {Row("emp1", ts, k, c) : k \in {"window_change", "idle", OtherKind},
                           c \in Contexts}

\* Time passes, then log_event(...) with one of those rows.
LogOtherEvent ==
  /\ Len(events) < MaxEvents + 1
  /\ \E ts \in now..MaxTime :
       /\ now' = ts
       /\ \E r \in OtherKindRows(ts) : events' = Append(events, r)
  /\ UNCHANGED <<bufvars, reader, log_call, restvars>>

OtherKindNext == LogOtherEvent

OtherKindSpec == Init /\ [][OtherKindNext]_vars

(* ------------------------------------------------------------------ *)
(* Windows without a name                                              *)
(* ------------------------------------------------------------------ *)

\* A window whose title is one space, and a process named ".exe".
BlankTitle == <<<<" ">>, NULL>>
ExeOnly == <<NULL, <<".", "e", "x", "e">>>>

BlankContexts == {BlankTitle, ExeOnly}

\* The rows logged while such a window is in front: of the first employee
\* with either name or with a browser, or idle, and of the second one with
\* the process or the browser.
BlankRows(ts) ==
  {Row("emp1", ts, "window_change", c) : c \in BlankContexts \cup {TitleChrome}}
    \cup {Row("emp1", ts, "idle", NoWindow)}
    \cup {Row("emp2", ts, "active", c) : c \in {ExeOnly, ProcessChrome}}

\* Time passes, then log_event(...).
LogBlankEvent ==
  /\ Len(events) < MaxEvents
  /\ \E ts \in now..MaxTime :
       /\ now' = ts
       /\ \E r \in BlankRows(ts) : events' = Append(events, r)
  /\ UNCHANGED <<bufvars, reader, log_call, restvars>>

BlankNext == LogBlankEvent

BlankSpec == Init /\ [][BlankNext]_vars

(* ------------------------------------------------------------------ *)
(* One pass of the monitoring loop                                     *)
(* ------------------------------------------------------------------ *)

\* What get_active_context() returns: a title and a process, or neither.
PassContexts == Contexts \cup {NoWindow}

\* IDLE_WEBCAM_THRESHOLD, in ticks.
IdleWebcamThreshold == TicksPerCenti

\* " | " and get_summary() of an empty batch
SummarySuffix ==
  <<" ", "|", " ", "0", " ", "k", "e", "y", "s", ",", " ", "0", " ", "c", "l",
    "i", "c", "k", "s", ",", " ", "0", "p", "x", " ", "m", "o", "v", "e", "d">>

\* The calls of log_event that one pass of the try block makes at tick ts,
\* in order: status is what get_status() returned, ctx the active context,
\* non_work what _is_non_work_context found in the title or the process.
PassCalls(ts, status, ctx, non_work) ==
  LET photo == /\ status = "idle"
               /\ idle_start_time # NotIdle
               /\ ts - idle_start_time >= IdleWebcamThreshold
      current_window == IF photo /\ Truthy(ctx[1])
                          THEN ctx[1] \o SummarySuffix ELSE ctx[1]
      seen == <<current_window, ctx[2]>>
  IN (IF photo THEN <<Row("emp1", ts, "idle_photo", seen)>> ELSE <<>>)
     \o (IF current_window # last_window
           THEN (IF non_work
                   THEN <<Row("emp1", ts, "non_work_detected", seen)>>
                   ELSE <<Row("emp1", ts, "window_change", seen)>>)
         ELSE IF status = "active"
           THEN <<Row("emp1", ts, "active", seen)>>
           ELSE <<Row("emp1", ts, "idle", seen)>>)

\* _monitoring_loop: one pass of the try block up to the random screenshot.
\* The first returned calls of log_event insert their rows; if one raises,
\* the pass ends in the handler with what was assigned before it.
MonitoringPass ==
  /\ Len(events) < MaxEvents
  /\ \E ts \in now..MaxTime, status \in {"active", "idle"},
        ctx \in PassContexts, non_work \in BOOLEAN :
       LET calls == PassCalls(ts, status, ctx, non_work)
           photo == calls[1].event_type = "idle_photo"
           current_window == calls[Len(calls)].active_window
       IN /\ non_work => (Truthy(ctx[1]) \/ Truthy(ctx[2]))
          /\ \E returned \in 0..Len(calls) :
               /\ now' = ts
               /\ events' = events \o SubSeq(calls, 1, returned)
               /\ logged' = SubSeq(calls, 1, returned)
               /\ activity_status' = status
               /\ idle_start_time' =
                    IF status # "idle" THEN NotIdle
                    ELSE IF idle_start_time = NotIdle THEN ts
                    ELSE IF photo /\ returned >= 1 THEN NotIdle
                    ELSE idle_start_time
               /\ last_window' =
                    IF current_window # last_window /\ (photo => returned >= 1)
                      THEN current_window ELSE last_window
  /\ UNCHANGED <<bufvars, reader, log_call, tablevars, cbvars, shotvars>>

PassNext == MonitoringPass

PassSpec == Init /\ [][PassNext]_vars

(* ------------------------------------------------------------------ *)
(* Queries                                                             *)
(* ------------------------------------------------------------------ *)

\* "ORDER BY timestamp": rows of equal timestamp stay in rowid order
\* (index idx_events_emp_ts).
RECURSIVE InsertByTimestamp(_, _)
InsertByTimestamp(sorted, r) ==
  IF sorted = <<>> THEN <<r>>
  ELSE IF sorted[Len(sorted)].timestamp <= r.timestamp THEN Append(sorted, r)
  ELSE Append(InsertByTimestamp(SubSeq(sorted, 1, Len(sorted) - 1), r),
              sorted[Len(sorted)])

RECURSIVE OrderByTimestamp(_)
OrderByTimestamp(rows) ==
  IF rows = <<>> THEN <<>>
  ELSE InsertByTimestamp(OrderByTimestamp(SubSeq(rows, 1, Len(rows) - 1)),
                         rows[Len(rows)])

InWindowOfAnyEmployee(r, emp, start, end) ==
  start <= r.timestamp /\ r.timestamp <= end

\* "WHERE employee_id=? AND timestamp BETWEEN ? AND ?"
InWindow(r, emp, start, end) ==
  r.employee_id = emp /\ start <= r.timestamp /\ r.timestamp <= end

\* "SELECT ... FROM events WHERE employee_id=? AND timestamp BETWEEN ? AND ?
\*  ORDER BY timestamp"
QueryRows(emp, start, end) ==
  OrderByTimestamp(SelectSeq(events, LAMBDA r : InWindow(r, emp, start, end)))

\* _day_bounds(day): the first and the last instant of the day
DayBounds(day) == <<day * DayLen, day * DayLen + DayLen - 1>>

\* utcnow().date()
Today(t) == t \div DayLen

Days == 0..Today(MaxTime)

Max0Unclamped(delta) == delta

\* max(0.0, delta)
Max0(delta) == IF delta > 0 THEN delta ELSE 0

\* round(minutes, 2), of a duration in ticks, in units of 0.01 minute:
\* to the nearest, a tie to the even one.
Round2(ticks) ==
  LET q == ticks \div TicksPerCenti
      r == ticks % TicksPerCenti
  IN  IF 2 * r < TicksPerCenti THEN q
      ELSE IF 2 * r > TicksPerCenti THEN q + 1
      ELSE IF q % 2 = 0 THEN q ELSE q + 1

NextStateElseIdle(prev_state, ev) ==
  IF ev \in ActiveKinds THEN "active" ELSE "idle"

NextStateIdleOnly(prev_state, ev) ==
  IF ev \in ActiveKinds THEN "active"
  ELSE IF ev = "idle" THEN "idle"
  ELSE prev_state

\* The reclassification at the end of the loop body: unknown kinds keep the
\* state.
NextState(prev_state, ev) ==
  IF ev \in ActiveKinds THEN "active"
  ELSE IF ev \in IdleKinds THEN "idle"
  ELSE prev_state

(* ------------------------------------------------------------------ *)
(* _sum_active_idle                                                    *)
(* ------------------------------------------------------------------ *)

\* The loop "for r in rows" from row k on; acc holds prev_ts, prev_state,
\* active_min and idle_min (in ticks).
RECURSIVE SumLoopByOwnKind(_, _, _)
SumLoopByOwnKind(rows, k, acc) ==
  IF k > Len(rows) THEN acc
  ELSE LET ts == rows[k].timestamp
           delta == ts - acc.prev_ts
           own == NextState(acc.prev_state, rows[k].event_type)
       IN SumLoopByOwnKind(rows, k + 1,
            [prev_ts |-> ts,
             prev_state |-> own,
             active_min |-> IF own = "active"
                              THEN acc.active_min + Max0(delta)
                              ELSE acc.active_min,
             idle_min |-> IF own = "active"
                            THEN acc.idle_min
                            ELSE acc.idle_min + Max0(delta)])

RECURSIVE SumLoop(_, _, _)
SumLoop(rows, k, acc) ==
  IF k > Len(rows) THEN acc
  ELSE LET ts == rows[k].timestamp
           delta == ts - acc.prev_ts
       IN SumLoop(rows, k + 1,
            [prev_ts |-> ts,
             prev_state |-> NextState(acc.prev_state, rows[k].event_type),
             active_min |-> IF acc.prev_state = "active"
                              THEN acc.active_min + Max0(delta)
                              ELSE acc.active_min,
             idle_min |-> IF acc.prev_state = "active"
                            THEN acc.idle_min
                            ELSE acc.idle_min + Max0(delta)])

CloseTailAsIdle(acc, end_dt) ==
  IF end_dt > acc.prev_ts
    THEN [acc EXCEPT !.idle_min = @ + Max0(end_dt - acc.prev_ts)]
    ELSE acc

CloseTailNever(acc, end_dt) == acc

\* "Close tail to end of range"
CloseTail(acc, end_dt) ==
  IF end_dt > acc.prev_ts
    THEN LET delta == end_dt - acc.prev_ts
         IN IF acc.prev_state = "active"
              THEN [acc EXCEPT !.active_min = @ + Max0(delta)]
              ELSE [acc EXCEPT !.idle_min = @ + Max0(delta)]
    ELSE acc

SumActiveIdleFromStart(emp, start, end) ==
  LET rows == QueryRows(emp, start, end) IN
  IF rows = <<>> THEN <<0, 0>>
  ELSE LET acc == CloseTail(
                    SumLoop(rows, 1,
                      [prev_ts |-> start, prev_state |-> "idle",
                       active_min |-> 0, idle_min |-> 0]),
                    end)
       IN <<Round2(acc.active_min), Round2(acc.idle_min)>>

\* _sum_active_idle(employee_id, start_iso, end_iso): the pair
\* (active minutes, idle minutes), each in units of 0.01 minute.
SumActiveIdle(emp, start, end) ==
  LET rows == QueryRows(emp, start, end) IN
  IF rows = <<>> THEN <<0, 0>>
  ELSE LET acc == CloseTail(
                    SumLoop(rows, 1,
                      [prev_ts |-> rows[1].timestamp, prev_state |-> "idle",
                       active_min |-> 0, idle_min |-> 0]),
                    end)
       IN <<Round2(acc.active_min), Round2(acc.idle_min)>>

\* get_employee_full_activity(employee_id, start_iso, end_iso): its events,
\* active_minutes and idle_minutes.
GetEmployeeFullActivity(emp, start, end) ==
  LET sums == SumActiveIdle(emp, start, end)
  IN [events |-> QueryRows(emp, start, end),
      active_minutes |-> sums[1],
      idle_minutes |-> sums[2]]

(* ------------------------------------------------------------------ *)
(* get_continuous_sessions                                             *)
(* ------------------------------------------------------------------ *)

\* No session is open.
NoStart == -1

\* int((ts - current_start).total_seconds()): 0.01 minute is 0.6 second.
DurationSeconds(ticks) == (6 * ticks) \div (10 * TicksPerCenti)

RECURSIVE SessionLoopRestarting(_, _, _, _)
SessionLoopRestarting(rows, k, current_start, sessions) ==
  IF k > Len(rows) THEN sessions
  ELSE LET ts == rows[k].timestamp
           ev == rows[k].event_type
           opened == IF ev \in {"active", "window_change"}
                       THEN ts ELSE current_start
           closes == ev \in {"idle", "idle_photo", "non_work_detected"}
                       /\ opened # NoStart
       IN SessionLoopRestarting(rows, k + 1,
            IF closes THEN NoStart ELSE opened,
            IF closes
              THEN Append(sessions,
                     [start |-> opened, end |-> ts,
                      duration_seconds |-> DurationSeconds(ts - opened)])
              ELSE sessions)

\* The loop "for r in rows" from row k on.
RECURSIVE SessionLoop(_, _, _, _)
SessionLoop(rows, k, current_start, sessions) ==
  IF k > Len(rows) THEN sessions
  ELSE LET ts == rows[k].timestamp
           ev == rows[k].event_type
           opened == IF ev \in {"active", "window_change"}
                        /\ current_start = NoStart
                       THEN ts ELSE current_start
           closes == ev \in {"idle", "idle_photo", "non_work_detected"}
                       /\ opened # NoStart
       IN SessionLoop(rows, k + 1,
            IF closes THEN NoStart ELSE opened,
            IF closes
              THEN Append(sessions,
                     [start |-> opened, end |-> ts,
                      duration_seconds |-> DurationSeconds(ts - opened)])
              ELSE sessions)

\* The body of get_continuous_sessions on the rows of [start, end].
ContinuousSessionsIn(emp, start, end) ==
  SessionLoop(QueryRows(emp, start, end), 1, NoStart, <<>>)

\* get_continuous_sessions(employee_id, day)
GetContinuousSessions(emp, day) ==
  ContinuousSessionsIn(emp, DayBounds(day)[1], DayBounds(day)[2])

(* ------------------------------------------------------------------ *)
(* Python dicts and sorted()                                           *)
(*                                                                     *)
(* A dict is the sequence of its <<key, value>> items in insertion     *)
(* order.                                                              *)
(* ------------------------------------------------------------------ *)

HasKey(d, k) == \E i \in 1..Len(d) : d[i][1] = k

\* d.get(k, default)
Get(d, k, default) ==
  IF HasKey(d, k) THEN d[CHOOSE i \in 1..Len(d) : d[i][1] = k][2]
  ELSE default

\* d[k] = v
Put(d, k, v) ==
  IF HasKey(d, k)
    THEN [i \in 1..Len(d) |-> IF d[i][1] = k THEN <<k, v>> ELSE d[i]]
    ELSE Append(d, <<k, v>>)

InsertLast(sorted, item) == Append(sorted, item)

\* sorted(items, key=lambda x: x[1], reverse=True): stable, so items of
\* equal value keep their order.
RECURSIVE InsertByValueDesc(_, _)
InsertByValueDesc(sorted, item) ==
  IF sorted = <<>> THEN <<item>>
  ELSE IF sorted[Len(sorted)][2] >= item[2] THEN Append(sorted, item)
  ELSE Append(InsertByValueDesc(SubSeq(sorted, 1, Len(sorted) - 1), item),
              sorted[Len(sorted)])

RECURSIVE SortedByValueDesc(_)
SortedByValueDesc(items) ==
  IF items = <<>> THEN <<>>
  ELSE InsertByValueDesc(SortedByValueDesc(SubSeq(items, 1, Len(items) - 1)),
                         items[Len(items)])

(* ------------------------------------------------------------------ *)
(* get_daily_stats                                                     *)
(* ------------------------------------------------------------------ *)

\* "[:5]"
TopAppsLimit == 5

\* The loop "for r in rows" from row k on; app_usage is keyed by the raw
\* active_window and is credited in either state.
RECURSIVE DailyLoop(_, _, _)
DailyLoop(rows, k, acc) ==
  IF k > Len(rows) THEN acc
  ELSE LET ts == rows[k].timestamp
           win == rows[k].active_window
           delta == ts - acc.prev_ts
       IN DailyLoop(rows, k + 1,
            [prev_ts |-> ts,
             prev_state |-> NextState(acc.prev_state, rows[k].event_type),
             active_time |-> IF acc.prev_state = "active"
                               THEN acc.active_time + Max0(delta)
                               ELSE acc.active_time,
             idle_time |-> IF acc.prev_state = "active"
                             THEN acc.idle_time
                             ELSE acc.idle_time + Max0(delta),
             app_usage |-> IF Truthy(win)
                             THEN Put(acc.app_usage, win,
                                      Get(acc.app_usage, win, 0) + Max0(delta))
                             ELSE acc.app_usage])

\* get_daily_stats(employee_id, day), without the count of table screenshots;
\* top_apps holds unrounded durations, in ticks.
GetDailyStats(emp, day) ==
  LET rows == QueryRows(emp, DayBounds(day)[1], DayBounds(day)[2])
      idle_photos ==
        Len(SelectSeq(events, LAMBDA r :
              /\ InWindow(r, emp, DayBounds(day)[1], DayBounds(day)[2])
              /\ r.event_type = "idle_photo"))
  IN IF rows = <<>>
       THEN [active_time_min |-> 0, idle_time_min |-> 0,
             idle_photo_count |-> idle_photos, top_apps |-> <<>>]
       ELSE LET acc == DailyLoop(rows, 1,
                         [prev_ts |-> rows[1].timestamp, prev_state |-> "idle",
                          active_time |-> 0, idle_time |-> 0,
                          app_usage |-> <<>>])
                top == SortedByValueDesc(acc.app_usage)
            IN [active_time_min |-> Round2(acc.active_time),
                idle_time_min |-> Round2(acc.idle_time),
                idle_photo_count |-> idle_photos,
                top_apps |-> SubSeq(top, 1, Min(Len(top), TopAppsLimit))]

(* ------------------------------------------------------------------ *)
(* get_apps_usage                                                      *)
(* ------------------------------------------------------------------ *)

CoalesceTitleFirst(r) ==
  IF r.active_window # NULL THEN r.active_window ELSE r.process_name

\* "COALESCE(process_name, active_window) AS app"
Coalesce(r) == IF r.process_name # NULL THEN r.process_name ELSE r.active_window

Unknown == <<"U", "n", "k", "n", "o", "w", "n">>

\* "x or y" on optional strings
Or(x, y) == IF Truthy(x) THEN x ELSE y

\* The strings that reach _normalize and _display_from: the app column of a
\* row, or 'Unknown'.
RawNames ==
  {Or(Coalesce(Row("emp1", 0, "active", c)), Unknown) :
     c \in Contexts \cup QuickContexts \cup BlankContexts}

\* _normalize and _display_from on those strings, evaluated once.
NormalizeRaw == [raw \in RawNames |-> Normalize(raw)]
DisplayFromRaw == [raw \in RawNames |-> DisplayFrom(raw)]

\* "prev_raw = rows[0][2] or 'Unknown'; prev_key = _normalize(prev_raw)": the
\* key of the event a stream starts with.
FirstKey(r) == NormalizeRaw[Or(Coalesce(r), Unknown)]

CreditRelabelling(acc, delta) ==
  [acc EXCEPT
     !.minutes_by_key =
        Put(@, acc.prev_key, Get(@, acc.prev_key, 0) + Max0(delta)),
     !.name_by_key = Put(@, acc.prev_key, DisplayFromRaw[acc.prev_raw])]

\* "minutes_by_key[prev_key] = minutes_by_key.get(prev_key, 0.0) + max(0.0,
\*  delta_min)" and "if prev_key not in name_by_key: name_by_key[prev_key] =
\*  _display_from(prev_raw)"
Credit(acc, delta) ==
  [acc EXCEPT
     !.minutes_by_key =
        Put(@, acc.prev_key, Get(@, acc.prev_key, 0) + Max0(delta)),
     !.name_by_key =
        IF HasKey(@, acc.prev_key) THEN @
        ELSE Put(@, acc.prev_key, DisplayFromRaw[acc.prev_raw])]

\* The loop "for ts_str, ev_type, raw in rows" from row k on; raised records
\* that _normalize raised IndexError, which ends the call.
RECURSIVE UsageLoop(_, _, _)
UsageLoop(rows, k, acc) ==
  IF k > Len(rows) \/ acc.raised THEN acc
  ELSE LET ts == rows[k].timestamp
           ev == rows[k].event_type
           raw == Coalesce(rows[k])
           credited == IF acc.prev_state = "active"
                         THEN Credit(acc, ts - acc.prev_ts) ELSE acc
           new_raw == IF ev \in ActiveKinds THEN Or(raw, acc.prev_raw)
                      ELSE acc.prev_raw
           new_key == IF ev \in ActiveKinds THEN NormalizeRaw[new_raw]
                      ELSE acc.prev_key
       IN UsageLoop(rows, k + 1,
            [credited EXCEPT
               !.prev_ts = ts,
               !.prev_state = NextState(acc.prev_state, ev),
               !.prev_raw = new_raw,
               !.prev_key = new_key,
               !.raised = (new_key = IndexError)])

TailEndNow(utcnow, day_end) == utcnow

\* "tail_end = min(datetime.utcnow(), day_end)"
TailEnd(utcnow, day_end) == Min(utcnow, day_end)

CloseAnyTail(acc, tail_end) ==
  IF tail_end > acc.prev_ts THEN Credit(acc, tail_end - acc.prev_ts) ELSE acc

\* "Close the final active segment up to now or end of day"
CloseActiveTail(acc, tail_end) ==
  IF acc.prev_state = "active" /\ tail_end > acc.prev_ts
    THEN Credit(acc, tail_end - acc.prev_ts)
    ELSE acc

\* The list comprehension building out: the items of minutes_by_key by
\* descending value, those of value 0 left out, minutes rounded.
RECURSIVE Output(_, _, _)
Output(items, k, name_by_key) ==
  IF k > Len(items) THEN <<>>
  ELSE (IF items[k][2] > 0
          THEN <<[app |-> Get(name_by_key, items[k][1], items[k][1]),
                  key |-> items[k][1],
                  minutes |-> Round2(items[k][2])]>>
          ELSE <<>>)
       \o Output(items, k + 1, name_by_key)

\* What a call of get_apps_usage gives when _normalize raised.
RaisedIndexError == <<[raised |-> IndexError]>>

\* The fold of get_apps_usage over rows (not empty) and the closing of the
\* tail, called when the clock reads utcnow: prev_ts, prev_raw, prev_key,
\* prev_state, the two dicts, and whether _normalize raised.
UsageFold(rows, day_end, utcnow) ==
  LET prev_raw == Or(Coalesce(rows[1]), Unknown)
      prev_key == NormalizeRaw[prev_raw]
      looped == UsageLoop(rows, 1,
                  [prev_ts |-> rows[1].timestamp, prev_raw |-> prev_raw,
                   prev_key |-> prev_key, prev_state |-> "idle",
                   minutes_by_key |-> <<>>, name_by_key |-> <<>>,
                   raised |-> (prev_key = IndexError)])
  IN IF looped.raised THEN looped
     ELSE CloseActiveTail(looped, TailEnd(utcnow, day_end))

\* The body of get_apps_usage on the rows of [start, end]: the list out, or
\* RaisedIndexError.
AppsUsageIn(emp, start, end, utcnow) ==
  LET rows == QueryRows(emp, start, end) IN
  IF rows = <<>> THEN <<>>
  ELSE LET acc == UsageFold(rows, end, utcnow)
       IN IF acc.raised THEN RaisedIndexError
          ELSE Output(SortedByValueDesc(acc.minutes_by_key), 1,
                      acc.name_by_key)

\* get_apps_usage(employee_id, day), called when the clock reads utcnow.
GetAppsUsage(emp, day, utcnow) ==
  AppsUsageIn(emp, DayBounds(day)[1], DayBounds(day)[2], utcnow)

(* ------------------------------------------------------------------ *)
(* get_company_apps_usage                                              *)
(* ------------------------------------------------------------------ *)

\* The order in which "SELECT employee_id FROM employees" gives the
\* registered employees.
EmployeeIds == <<"emp1", "emp2">>

UpperChar(c) ==
  IF \E i \in 1..Len(LowerCase) : LowerCase[i] = c
    THEN UpperCase[CHOOSE i \in 1..Len(LowerCase) : LowerCase[i] = c]
    ELSE c

IsLetter(c) == LowerChar(c) # c \/ UpperChar(c) # c

\* str.title()
Title(s) ==
  [i \in 1..Len(s) |->
     IF i = 1 \/ ~IsLetter(s[i - 1]) THEN UpperChar(s[i]) ELSE LowerChar(s[i])]

Overwrite(totals, key, minutes) == Put(totals, key, minutes)

\* "totals[key] = totals.get(key, 0.0) + minutes"
Accumulate(totals, key, minutes) ==
  Put(totals, key, Get(totals, key, 0) + minutes)

\* The loop "for item in apps" from item k on; acc holds totals and names.
RECURSIVE ItemLoop(_, _, _)
ItemLoop(apps, k, acc) ==
  IF k > Len(apps) THEN acc
  ELSE LET key == IF Truthy(apps[k].key) THEN apps[k].key
                  ELSE Lower(Or(apps[k].app, <<>>))
       IN ItemLoop(apps, k + 1,
            [totals |-> Accumulate(acc.totals, key, apps[k].minutes),
             names |-> IF HasKey(acc.names, key) THEN acc.names
                       ELSE Put(acc.names, key, Or(apps[k].app, Title(key)))])

\* The loop "for eid in employee_ids" from employee k on, over what
\* get_apps_usage returned for each; an exception skips the employee.
RECURSIVE EmployeeLoop(_, _, _)
EmployeeLoop(apps_of, k, acc) ==
  IF k > Len(apps_of) THEN acc
  ELSE EmployeeLoop(apps_of, k + 1,
         IF apps_of[k] = RaisedIndexError THEN acc
         ELSE ItemLoop(apps_of[k], 1, acc))

\* The list comprehension building out; round(v, 2) leaves a sum of
\* hundredths as it is.
RECURSIVE CompanyOutput(_, _, _)
CompanyOutput(items, k, names) ==
  IF k > Len(items) THEN <<>>
  ELSE (IF items[k][2] > 0
          THEN <<[key |-> items[k][1],
                  app |-> Get(names, items[k][1], Title(items[k][1])),
                  minutes |-> items[k][2]]>>
          ELSE <<>>)
       \o CompanyOutput(items, k + 1, names)

\* get_company_apps_usage on the lists get_apps_usage returned for the
\* employees, in the order of employee_ids.
CompanyRollup(apps_of) ==
  LET acc == EmployeeLoop(apps_of, 1, [totals |-> <<>>, names |-> <<>>])
  IN CompanyOutput(SortedByValueDesc(acc.totals), 1, acc.names)

\* get_company_apps_usage(day), called when the clock reads utcnow.
GetCompanyAppsUsage(day, utcnow) ==
  LET employee_ids == SelectSeq(EmployeeIds, LAMBDA e : employees[e].present)
  IN CompanyRollup([i \in 1..Len(employee_ids) |->
                      GetAppsUsage(employee_ids[i], day, utcnow)])

(* ------------------------------------------------------------------ *)
(* The random screenshot of the monitoring loop                        *)
(* ------------------------------------------------------------------ *)

\* Last second of the clock time.time().
MaxWall == 70

\* "clamp to >= 30s"
MinShotDelay == 30

\* The values of screenshot_interval_seconds and screenshot_jitter_seconds
\* in the settings.
ShotBases == {-5, 0, MinShotDelay, MinShotDelay + 1}
ShotJitters == {-1, 0, 2}

\* "low = max(30, int(base) - max(0, int(jitter)))"
ShotLow(base, jitter) ==
  IF base - Max0(jitter) > MinShotDelay
    THEN base - Max0(jitter) ELSE MinShotDelay

ShotHighUnclamped(low, base, jitter) == base + Max0(jitter)

\* "high = max(low, int(base) + max(0, int(jitter)))"
ShotHigh(low, base, jitter) ==
  IF base + Max0(jitter) > low THEN base + Max0(jitter) ELSE low

\* _schedule_next_shot(base, jitter), called by caller when the clock reads
\* wall: random.randint(low, high) raises ValueError when the range is
\* empty, and then _next_random_shot_at stays as it is.
ScheduleNextShot(caller, base, jitter) ==
  LET low == ShotLow(base, jitter)
      high == ShotHigh(low, base, jitter)
  IN IF low > high
       THEN /\ shot' = [caller |-> caller, base |-> base, jitter |-> jitter,
                        at |-> wall, delay |-> 0, raised |-> TRUE]
            /\ UNCHANGED next_random_shot_at
       ELSE \E delay \in low..high :
              /\ shot' = [caller |-> caller, base |-> base,
                          jitter |-> jitter, at |-> wall, delay |-> delay,
                          raised |-> FALSE]
              /\ next_random_shot_at' = wall + delay

\* _monitoring_loop, before the while loop: "initialize next random shot".
FirstSchedule ==
  /\ shot.caller = "none"
  /\ \E base \in ShotBases, jitter \in ShotJitters :
       ScheduleNextShot("start", base, jitter)
  /\ UNCHANGED <<bufvars, storevars, monvars, tablevars, cbvars, wall>>

\* time.sleep(ACTIVITY_CHECK_INTERVAL) and the passes in which no screenshot
\* is due.
WallPasses ==
  /\ shot.caller # "none"
  /\ \E later \in (wall + 1)..MaxWall : wall' = later
  /\ UNCHANGED <<bufvars, storevars, monvars, tablevars, cbvars,
                 next_random_shot_at, shot>>

\* _monitoring_loop, "if time.time() >= self._next_random_shot_at": capture()
\* returns a path, which insert_screenshot stores, or None, or one of the
\* two raises; the try branch and the except branch both reschedule.
RandomShot ==
  /\ shot.caller # "none"
  /\ wall >= next_random_shot_at
  /\ \E outcome \in {"captured", "nothing", "raised"},
        base \in ShotBases, jitter \in ShotJitters :
       /\ outcome = "captured" => Len(screenshots) < MaxEvents
       /\ screenshots' =
            IF outcome = "captured"
              THEN Append(screenshots,
                     [employee_id |-> "emp1", timestamp |-> now,
                      reason |-> "scheduled_random"])
              ELSE screenshots
       /\ ScheduleNextShot(outcome, base, jitter)
  /\ UNCHANGED <<bufvars, storevars, monvars, employees, employee_call,
                 cbvars, wall>>

ShotNext == FirstSchedule \/ WallPasses \/ RandomShot

ShotSpec == Init /\ [][ShotNext]_vars

(* ------------------------------------------------------------------ *)
(* Table employees                                                     *)
(* ------------------------------------------------------------------ *)

\* COALESCE(x, y)
CoalesceSql(x, y) == IF x # NULL THEN x ELSE y

AliceName == <<"A", "l", "i", "c", "e">>
OpsTeam == <<"O", "p", "s">>
IdleThresholdKey == <<"idle_threshold_seconds">>

\* The config dicts a caller passes.
ConfigDicts == {<<>>, <<<<IdleThresholdKey, 120>>>>}

\* The seconds the dashboard posts.
ThresholdSeconds == {60, 300}

\* "config or {}"
OrEmptyDict(config) == IF config = NULL \/ config = <<>> THEN <<>> ELSE config

\* The value the statement binds to column config:
\* "json.dumps(config or {})"
ExcludedConfig(config) == JsonDumps(OrEmptyDict(config))

\* upsert_employee(employee_id, name, team, config): INSERT ... ON CONFLICT
\* (employee_id) DO UPDATE SET each column to COALESCE(excluded, stored).
UpsertEmployee ==
  /\ \E emp \in Employees, name \in {NULL, AliceName},
        team \in {NULL, OpsTeam}, given \in BOOLEAN, dict \in ConfigDicts :
       LET row == employees[emp]
           config == IF given THEN dict ELSE NULL
           excluded == [present |-> TRUE, name |-> name, team |-> team,
                        config |-> ExcludedConfig(config)]
       IN /\ employees' =
               [employees EXCEPT ![emp] =
                  IF row.present
                    THEN [present |-> TRUE,
                          name |-> CoalesceSql(excluded.name, row.name),
                          team |-> CoalesceSql(excluded.team, row.team),
                          config |-> CoalesceSql(excluded.config, row.config)]
                    ELSE excluded]
          /\ employee_call' = [op |-> "upsert_employee", employee_id |-> emp,
                               name |-> name, team |-> team,
                               config |-> config, found |-> row]
  /\ UNCHANGED <<bufvars, storevars, monvars, screenshots, cbvars, shotvars>>

\* update_employee_idle_threshold(employee_id, seconds): the stored config,
\* or {} when there is no row or no config, with idle_threshold_seconds set;
\* the UPDATE changes the row if there is one.
UpdateEmployeeIdleThreshold ==
  /\ \E emp \in Employees, seconds \in ThresholdSeconds :
       LET row == employees[emp]
           cfg_json == IF row.present /\ Truthy(row.config)
                         THEN JsonLoads(row.config) ELSE <<>>
           updated == Put(cfg_json, IdleThresholdKey, seconds)
       IN /\ employees' =
               [employees EXCEPT ![emp] =
                  IF row.present
                    THEN [row EXCEPT !.config = JsonDumps(updated)]
                    ELSE row]
          /\ employee_call' = [op |-> "update_employee_idle_threshold",
                               employee_id |-> emp, seconds |-> seconds,
                               found |-> row]
  /\ UNCHANGED <<bufvars, storevars, monvars, screenshots, cbvars, shotvars>>

EmployeeNext == UpsertEmployee \/ UpdateEmployeeIdleThreshold

EmployeeSpec == Init /\ [][EmployeeNext]_vars

(* ------------------------------------------------------------------ *)
(* The operations of the dashboard that write to table events          *)
(* ------------------------------------------------------------------ *)

\* The employee_id of a request that names none.
NoEmployee == ""

\* The rows of a table that "DELETE FROM ... WHERE employee_id=? AND
\* timestamp BETWEEN ? AND ?" leaves.
DeleteInWindow(table, emp, start, end) ==
  SelectSeq(table, LAMBDA r : ~InWindow(r, emp, start, end))

\* clear_employee_timeline(employee_id, day, include_media): the DELETE on
\* events and on movement_logs, "if include_media" on screenshots, commit.
ClearEmployeeTimeline ==
  /\ \E emp \in Employees, day \in Days, include_media \in BOOLEAN :
       LET start == DayBounds(day)[1]
           end == DayBounds(day)[2]
       IN /\ events' = DeleteInWindow(events, emp, start, end)
          /\ movement_logs' = DeleteInWindow(movement_logs, emp, start, end)
          /\ screenshots' = IF include_media
                              THEN DeleteInWindow(screenshots, emp, start, end)
                              ELSE screenshots
  /\ UNCHANGED <<movement_events, lock, db_lock, pc, idx, txn, is_running,
                 mon_running, shutdown_event, listener_on, current_status,
                 nrec, failures, explicit_flush, flush_failed,
                 accepted_at_return, now, reader, log_call, monvars,
                 employees, employee_call, cbvars, shotvars>>

\* The rows of a table that "DELETE FROM ... WHERE employee_id=?" leaves.
DeleteOf(table, emp) == SelectSeq(table, LAMBDA r : r.employee_id # emp)

\* delete_employee(employee_id): "if not employee_id: return", else the
\* DELETE on events, screenshots, movement_logs and employees, commit.
DeleteEmployee ==
  /\ \E emp \in Employees \cup {NoEmployee} :
       IF emp = NoEmployee
         THEN UNCHANGED <<events, screenshots, movement_logs, employees>>
         ELSE /\ events' = DeleteOf(events, emp)
              /\ screenshots' = DeleteOf(screenshots, emp)
              /\ movement_logs' = DeleteOf(movement_logs, emp)
              /\ employees' = [employees EXCEPT ![emp] = NoRow]
  /\ UNCHANGED <<movement_events, lock, db_lock, pc, idx, txn, is_running,
                 mon_running, shutdown_event, listener_on, current_status,
                 nrec, failures, explicit_flush, flush_failed,
                 accepted_at_return, now, reader, log_call, monvars,
                 employee_call, cbvars, shotvars>>

\* log_movement_batch(events, employee_id) as one transaction: a batch of
\* one or two records of the employee, taken at the tick of the latest
\* event, is inserted and committed.  Here a row of movement_logs is its employee_id
\* and timestamp.
LogMovementBatch ==
  /\ StoredRows < MaxEvents
  /\ \E emp \in Employees, batch \in {1, 2} :
       movement_logs' =
         movement_logs
           \o [i \in 1..batch |-> [employee_id |-> emp, timestamp |-> now]]
  /\ UNCHANGED <<movement_events, lock, db_lock, pc, idx, txn, is_running,
                 mon_running, shutdown_event, listener_on, current_status,
                 nrec, failures, explicit_flush, flush_failed,
                 accepted_at_return, storevars, restvars>>

\* insert_screenshot(employee_id, path, reason), in the pass that logged
\* the latest event: timestamp defaults to utcnow().isoformat(); INSERT,
\* commit.
InsertScreenshot ==
  /\ StoredRows < MaxEvents
  /\ \E emp \in Employees,
        reason \in {"non_work_detected", "scheduled_random"} :
       /\ employees[emp].present
       /\ screenshots' =
            Append(screenshots,
                   [employee_id |-> emp, timestamp |-> now, reason |-> reason])
  /\ UNCHANGED <<bufvars, storevars, monvars, employees, employee_call, cbvars, shotvars>>

TimelineNext ==
  \/ LogEvent
  \/ LogMovementBatch
  \/ InsertScreenshot
  \/ ClearEmployeeTimeline

TimelineSpec == Init /\ [][TimelineNext]_vars

\* log_event(..., timestamp=ts): the caller gives the timestamp, which may
\* be earlier than the ones stored.
LogEventAt ==
  /\ Len(events) < MaxEvents
  /\ \E ts \in 0..MaxTime :
       \E k \in Kinds, c \in Contexts :
         events' = Append(events, Row("emp1", ts, k, c))
  /\ UNCHANGED <<bufvars, now, reader, log_call, restvars>>

BackdatedNext == LogEventAt

BackdatedSpec == Init /\ [][BackdatedNext]_vars

(* ------------------------------------------------------------------ *)
(* log_event, statement by statement, in several threads               *)
(* ------------------------------------------------------------------ *)

RLockAlwaysAcquirable(holder, t) == TRUE

\* threading.RLock: acquire() goes on when no thread owns the lock or the
\* caller owns it.
RLockAcquirable(holder, t) == holder = "free" \/ holder = t

\* "ts = timestamp or datetime.utcnow().isoformat()", before the lock is
\* asked for; the row is the one the INSERT will write.
LogCall(c) ==
  /\ pc["main"] = "running"
  /\ log_call.pc[c] = "out"
  /\ Len(events) + Cardinality({d \in LogCallers : log_call.pc[d] # "out"})
       < MaxEvents
  /\ \E ts \in now..MaxTime, k \in {"active", "idle"} :
       /\ now' = ts
       /\ log_call' = [log_call EXCEPT !.pc[c] = "lock",
                          !.row[c] = <<Row("emp1", ts, k, ProcessChrome)>>]
  /\ UNCHANGED <<bufvars, events, reader, restvars>>

\* "with _DB_LOCK:" and "conn = _connect()"
LogAcquire(c) ==
  /\ log_call.pc[c] = "lock"
  /\ RLockAcquirable(db_lock, c)
  /\ db_lock' = c
  /\ log_call' = [log_call EXCEPT !.pc[c] = "insert"]
  /\ UNCHANGED <<movement_events, lock, movement_logs, pc, idx, txn,
                 is_running, mon_running, shutdown_event, listener_on,
                 current_status, nrec, failures, explicit_flush, flush_failed,
                 accepted_at_return, events, now, reader, restvars>>

\* "cur.execute(INSERT INTO events ...)" and "event_id = cur.lastrowid": id
\* is AUTOINCREMENT, one more than the largest id the connection sees
\* committed.
LogInsert(c) ==
  /\ log_call.pc[c] = "insert"
  /\ log_call' = [log_call EXCEPT !.pc[c] = "commit",
                     !.event_id[c] = log_call.seq + 1]
  /\ UNCHANGED <<bufvars, events, now, reader, restvars>>

\* "conn.commit(); conn.close(); return event_id", which ends "with
\* _DB_LOCK".
LogCommit(c) ==
  /\ log_call.pc[c] = "commit"
  /\ events' = events \o log_call.row[c]
  /\ db_lock' = "free"
  /\ log_call' = [log_call EXCEPT !.pc[c] = "out",
                     !.row[c] = <<>>,
                     !.event_id[c] = 0,
                     !.seq = log_call.event_id[c],
                     !.returned = Append(@, log_call.event_id[c])]
  /\ UNCHANGED <<movement_events, lock, movement_logs, pc, idx, txn,
                 is_running, mon_running, shutdown_event, listener_on,
                 current_status, nrec, failures, explicit_flush, flush_failed,
                 accepted_at_return, now, reader, restvars>>

\* The writers of one process: log_event in its callers and, in the batch
\* timer, log_movement_batch.
WriterNext ==
  \/ Start
  \/ \E t \in Recorders : RecordBurst(t)
  \/ BatchLoopTest
  \/ BatchWake
  \/ FlushStep
  \/ \E c \in LogCallers : LogCall(c)
  \/ \E c \in LogCallers : LogAcquire(c)
  \/ \E c \in LogCallers : LogInsert(c)
  \/ \E c \in LogCallers : LogCommit(c)

WriterSpec == Init /\ [][WriterNext]_vars

AdminNext ==
  \/ LogEvent
  \/ ClearEmployeeTimeline
  \/ DeleteEmployee

AdminSpec == Init /\ [][AdminNext]_vars

(* ------------------------------------------------------------------ *)
(* Claims about the movement batch                                     *)
(* ------------------------------------------------------------------ *)

InStore(id) == id \in Range(movement_logs)
InBatch(id) == id \in Range(movement_events)
InOpenTransaction(id) == \E t \in Flushers : id \in Range(txn[t])

NoAddInProgress == \A t \in Recorders : pc[t] \in {"off", "idle", "dead"}

\* Positions at which the next step of thread t reads or mutates
\* movement_events.
ListAccessPcs ==
  {"add_append", "add_len", "flush_check", "lmb_check", "lmb_iter", "flush_clear"}

\* The main thread has called the final _flush_batch of stop().
FinalFlushStarted ==
  pc["main"] \in {"flush_check", "lmb_check", "lmb_lock", "lmb_iter",
                  "lmb_commit", "flush_clear", "stop_raised", "stop_listeners",
                  "join_batch", "join_status", "join_monitor", "stopped"}

\* C2: with the recording threads and the timer thread interleaved in any way,
\* every record passed to _add_event is written to the store exactly once: at
\* no time is a record persisted twice, and at no time is a record gone from
\* the batch without being in the store or in a transaction about to commit.
C2_ExactlyOnce ==
  \A id \in 1..nrec :
    /\ Occurrences(movement_logs, id) <= 1
    /\ InBatch(id) \/ InStore(id) \/ InOpenTransaction(id)

\* C3: every thread that is about to read or mutate movement_events, in
\* _add_event or in _flush_batch, whoever called it, holds
\* ActivityDetector.lock.
C3_LockDiscipline ==
  \A t \in Flushers : pc[t] \in ListAccessPcs => lock = t

\* C4: with a store that accepts writes, once 50 records have been passed to
\* _add_event from an empty batch and nobody called _flush_batch explicitly, the
\* batch is empty and the store holds exactly those 50 rows; and whenever no
\* _add_event call is in progress the batch holds fewer than 50 records.
C4_AutoFlushAtThreshold ==
  NoAddInProgress =>
    /\ Len(movement_events) < FLUSH_THRESHOLD
    /\ (nrec = FLUSH_THRESHOLD /\ ~explicit_flush) =>
         /\ movement_events = <<>>
         /\ movement_logs = [i \in 1..FLUSH_THRESHOLD |-> i]

\* C4 witness: the 50th call has returned, no explicit flush was ever called,
\* and the 50 rows are in the store.
C4_Witness ==
  /\ NoAddInProgress
  /\ nrec = FLUSH_THRESHOLD
  /\ ~explicit_flush
  /\ movement_events = <<>>
  /\ Len(movement_logs) = FLUSH_THRESHOLD

\* C5: when ActivityDetector.stop() has returned, every record _add_event had
\* accepted by then is in the store.
C5_StopLosesNothing ==
  pc["main"] \in {"join_monitor", "stopped"} =>
    \A id \in 1..accepted_at_return : InStore(id)

\* C6: stop() first signals every background loop and every record source to
\* stop, then runs the final flush, then joins the workers: once the final
\* flush has started the loops' flags are cleared and the listeners stopped,
\* and no further record is accepted into the batch.
C6_StopOrder ==
  /\ [](FinalFlushStarted =>
          /\ ~is_running /\ ~mon_running /\ shutdown_event
          /\ \A t \in Recorders : ~listener_on[t])
  /\ [][FinalFlushStarted => nrec' = nrec]_vars

\* C7: when the store rejects the write during a flush, the failure reaches
\* the caller, the batch and the store are as they were before the failing
\* step, and a later scheduled flush retries: the batch timer is still running
\* while the detector is.
C7_FailureLeavesBatchForRetry ==
  /\ [][failures' > failures =>
          /\ movement_events' = movement_events
          /\ movement_logs' = movement_logs
          /\ flush_failed' # flush_failed]_vars
  /\ []((flush_failed # {} /\ is_running) => pc["batch"] # "dead")

\* C8: a failure raised during one tick ends none of the background loops:
\* none of _batch_loop, _status_loop and _monitoring_loop is ever ended by an
\* exception, and the monitoring loop goes through its backoff sleep to the
\* next loop test.
C8_LoopsSurviveFailure ==
  /\ \A t \in {"batch", "status", "monitor"} : pc[t] # "dead"
  /\ pc["monitor"] \in {"off", "mon_test", "mon_body", "mon_sleep",
                        "mon_backoff", "done"}

(* ------------------------------------------------------------------ *)
(* Claims about the analytics queries                                  *)
(* ------------------------------------------------------------------ *)

Times == 0..MaxTime

\* The employees the queries are asked about: the one whose events are of
\* every kind.  The other one is there for rows a query has to leave out.
Subjects == {"emp1"}

\* The times at which a query may run on the stored events as they are.
CallTimes == now..MaxTime

Abs(x) == IF x < 0 THEN -x ELSE x

\* The timestamps of the subject's stored events inside [start, end].
TimestampsIn(emp, start, end) ==
  {events[i].timestamp : i \in {j \in 1..Len(events) :
      /\ events[j].employee_id = emp
      /\ start <= events[j].timestamp
      /\ events[j].timestamp <= end}}

FirstTimestampIn(emp, start, end) ==
  CHOOSE t \in TimestampsIn(emp, start, end) :
    \A u \in TimestampsIn(emp, start, end) : t <= u

\* active_minutes + idle_minutes of the window, in ticks.
Accounted(emp, start, end) ==
  LET activity == GetEmployeeFullActivity(emp, start, end)
  IN TicksPerCenti * (activity.active_minutes + activity.idle_minutes)

\* C1 as stated: for every stored (timestamp-sorted) stream and every window
\* [start, end] holding at least one event of the subject, active_minutes +
\* idle_minutes is end - start, up to the 0.01 minute that rounding each of
\* the two totals to two decimals can add or take.
C1_AccountsForWholeWindow ==
  \A emp \in Subjects, start \in Times, end \in Times :
    (start <= end /\ TimestampsIn(emp, start, end) # {})
      => Abs(Accounted(emp, start, end) - (end - start)) <= TicksPerCenti

\* C1 amended: for every such stream and window, active_minutes +
\* idle_minutes is end - (timestamp of the first event in the window), up to
\* the 0.01 minute of rounding: the time from start to the first event is not
\* counted.
C1_AccountsFromFirstEvent ==
  \A emp \in Subjects, start \in Times, end \in Times :
    (start <= end /\ TimestampsIn(emp, start, end) # {})
      => Abs(Accounted(emp, start, end)
             - (end - FirstTimestampIn(emp, start, end))) <= TicksPerCenti

\* C1 witness: a window that starts before its first event and ends after
\* its last one, with active time credited.
C1_Witness ==
  \E emp \in Subjects, start \in Times, end \in Times :
    /\ start <= end
    /\ TimestampsIn(emp, start, end) # {}
    /\ start < FirstTimestampIn(emp, start, end)
    /\ \A t \in TimestampsIn(emp, start, end) : t < end
    /\ SumActiveIdle(emp, start, end)[1] > 0

\* The subject's stored events of the day leave the subject active: an
\* active-class event is followed by no idle-class event.
LeftActive(emp, day) ==
  \E i \in 1..Len(events) :
    /\ InWindow(events[i], emp, DayBounds(day)[1], DayBounds(day)[2])
    /\ events[i].event_type \in ActiveKinds
    /\ \A j \in (i + 1)..Len(events) :
         ~(/\ InWindow(events[j], emp, DayBounds(day)[1], DayBounds(day)[2])
           /\ events[j].event_type \in IdleKinds)

\* C9 as stated: on unmodified stored events, get_apps_usage for the same
\* subject and day returns the same result at every two call times, also
\* while the day is in progress and the subject's last event is active-class.
C9_SameResultAtAnyTwoCallTimes ==
  \A emp \in Subjects, day \in Days :
    LET usage == [t \in CallTimes |-> GetAppsUsage(emp, day, t)]
    IN \A t1 \in CallTimes, t2 \in CallTimes : usage[t1] = usage[t2]

\* C9 amended: on unmodified stored events, get_apps_usage for the same
\* subject and day returns the same result at every two call times that are
\* both at or after the end of the day, and at every two call times when the
\* day's events leave the subject idle.
C9_SameResultOnceDayIsOverOrIdle ==
  \A emp \in Subjects, day \in Days :
    LET usage == [t \in CallTimes |-> GetAppsUsage(emp, day, t)]
    IN \A t1 \in CallTimes, t2 \in CallTimes :
         (\/ ~LeftActive(emp, day)
          \/ (t1 >= DayBounds(day)[2] /\ t2 >= DayBounds(day)[2]))
           => usage[t1] = usage[t2]

\* C9 witness: the day's events leave the subject active, and two different
\* call times after the end of the day give a usage list that is not empty.
C9_Witness ==
  \E emp \in Subjects, day \in Days, t1 \in CallTimes, t2 \in CallTimes :
    /\ LeftActive(emp, day)
    /\ DayBounds(day)[2] <= t1
    /\ t1 < t2
    /\ GetAppsUsage(emp, day, t1) # <<>>
    /\ GetAppsUsage(emp, day, t1) # RaisedIndexError

\* C10: for a window holding no event of the subject, _sum_active_idle
\* returns (0, 0); for a day holding none, get_continuous_sessions and
\* get_apps_usage return an empty list and get_daily_stats returns zero
\* active and idle minutes and an empty top_apps.
C10_EmptyWindowGivesZeros ==
  /\ \A emp \in Subjects, start \in Times, end \in Times :
       (start <= end /\ TimestampsIn(emp, start, end) = {})
         => SumActiveIdle(emp, start, end) = <<0, 0>>
  /\ \A emp \in Subjects, day \in Days :
       TimestampsIn(emp, DayBounds(day)[1], DayBounds(day)[2]) = {}
         => /\ GetContinuousSessions(emp, day) = <<>>
            /\ \A t \in CallTimes : GetAppsUsage(emp, day, t) = <<>>
            /\ GetDailyStats(emp, day).active_time_min = 0
            /\ GetDailyStats(emp, day).idle_time_min = 0
            /\ GetDailyStats(emp, day).top_apps = <<>>

\* C10 witness: a day holding no event of the subject and an active-class
\* event of another employee, while the subject has events on another day.
C10_Witness ==
  \E emp \in Subjects, other \in Employees, day \in Days :
    /\ other # emp
    /\ TimestampsIn(emp, DayBounds(day)[1], DayBounds(day)[2]) = {}
    /\ TimestampsIn(emp, 0, MaxTime) # {}
    /\ LeftActive(other, day)

(* ------------------------------------------------------------------ *)
(* Claims about streams of minutes                                     *)
(* ------------------------------------------------------------------ *)

KeyChrome == <<"c", "h", "r", "o", "m", "e">>
KeyWord == <<"w", "o", "r", "d">>
KeyUnknown == <<"u", "n", "k", "n", "o", "w", "n">>

\* The instants at which the first event of a stream may lie.
ScenarioStarts == {Minutes(g) : g \in ScenarioGaps}

\* [(t0, window_change, Chrome), (t0 + 5 min, idle),
\*  (t0 + 5 min, window_change, Word), (t0 + 15 min, idle_photo)]
BrowseThenWrite(t0) ==
  <<Row("emp1", t0, "window_change", TitleChrome),
    Row("emp1", t0 + Minutes(5), "idle", NoWindow),
    Row("emp1", t0 + Minutes(5), "window_change", TitleWord),
    Row("emp1", t0 + Minutes(15), "idle_photo", NoWindow)>>

\* The <<key, minutes>> pairs of a usage list.
KeyMinutes(usage) == {<<usage[i].key, usage[i].minutes>> : i \in 1..Len(usage)}

\* C11: for the stream BrowseThenWrite(t0) stored in that order and the
\* window [t0, t0 + 20 min], queried at or after the end of the window, the
\* timeline gives 15 active and 5 idle minutes, the usage list is exactly
\* chrome 5 minutes and word 10 minutes, and the sessions are exactly
\* t0..t0+5 and t0+5..t0+15, both closed.  Minutes are in units of 0.01.
C11_BrowseThenWriteTotals ==
  \A t0 \in ScenarioStarts :
    events = BrowseThenWrite(t0)
      => LET end == t0 + Minutes(20) IN
         /\ SumActiveIdle("emp1", t0, end) = <<1500, 500>>
         /\ \A utcnow \in {end, end + Minutes(5)} :
              LET usage == AppsUsageIn("emp1", t0, end, utcnow)
              IN /\ Len(usage) = 2
                 /\ KeyMinutes(usage) = {<<KeyChrome, 500>>, <<KeyWord, 1000>>}
         /\ ContinuousSessionsIn("emp1", t0, end) =
              <<[start |-> t0, end |-> t0 + Minutes(5),
                 duration_seconds |-> 300],
                [start |-> t0 + Minutes(5), end |-> t0 + Minutes(15),
                 duration_seconds |-> 600]>>

\* C11 witness: the table holds the stream, its four events in order.
C11_Witness == \E t0 \in ScenarioStarts : events = BrowseThenWrite(t0)

\* The stored events logged with the given (active_window, process_name).
StoredWith(ctx) ==
  {i \in 1..Len(events) :
     events[i].active_window = ctx[1] /\ events[i].process_name = ctx[2]}

\* C16: the key of an event with process "chrome.exe" and no title equals
\* the key of an event with title "Google Chrome - New Tab" and process
\* "chrome.exe": both are chrome.
C16_SameKeyWithAndWithoutTitle ==
  \A i \in StoredWith(ProcessChrome), j \in StoredWith(NewTabInChrome) :
    /\ FirstKey(events[i]) = FirstKey(events[j])
    /\ FirstKey(events[i]) = KeyChrome

\* C16 witness: both events are stored.
C16_Witness ==
  StoredWith(ProcessChrome) # {} /\ StoredWith(NewTabInChrome) # {}

\* C19: for a raw identifier that is None or empty, _normalize gives the key
\* "unknown" and _display_from gives the label "Unknown".
C19_NoneOrEmptyIsUnknown ==
  \A i \in 1..Len(events) :
    Coalesce(events[i]) \in {NULL, <<>>}
      => /\ Normalize(Coalesce(events[i])) = KeyUnknown
         /\ DisplayFrom(Coalesce(events[i])) = Unknown

\* C19 witness: an event with no title and no process and an event with an
\* empty title are stored.
C19_Witness ==
  /\ \E i \in 1..Len(events) : Coalesce(events[i]) = NULL
  /\ \E i \in 1..Len(events) : Coalesce(events[i]) = <<>>

(* ------------------------------------------------------------------ *)
(* Claims about the analytics of one day                               *)
(* ------------------------------------------------------------------ *)

\* The start of the session the rows from row k on leave open, NoStart when
\* they leave none: a session opens at an active or window_change event
\* when none is open and closes at the next idle, idle_photo or
\* non_work_detected event.
RECURSIVE OpenSessionStart(_, _, _)
OpenSessionStart(rows, k, current_start) ==
  IF k > Len(rows) THEN current_start
  ELSE OpenSessionStart(rows, k + 1,
         IF rows[k].event_type \in {"idle", "idle_photo", "non_work_detected"}
           THEN NoStart
         ELSE IF rows[k].event_type \in {"active", "window_change"}
                 /\ current_start = NoStart
           THEN rows[k].timestamp
         ELSE current_start)

\* C13: when the events of the day end with a session still open,
\* get_continuous_sessions reports that session, with the end of the query
\* window as its end.
C13_OpenSessionIsReported ==
  \A emp \in Subjects, day \in Days :
    LET open == OpenSessionStart(
                  QueryRows(emp, DayBounds(day)[1], DayBounds(day)[2]),
                  1, NoStart)
        sessions == GetContinuousSessions(emp, day)
    IN open # NoStart
         => \E i \in 1..Len(sessions) :
              /\ sessions[i].start = open
              /\ sessions[i].end = DayBounds(day)[2]

\* The keys of a dict.
Keys(dict) == {dict[i][1] : i \in 1..Len(dict)}

\* What the fold of a call of get_apps_usage adds to the duration of key k
\* over the fold of a call at the time of the last event, when no tail is
\* open.
TailCredit(atCall, atLast, k) ==
  Get(atCall.minutes_by_key, k, 0) - Get(atLast.minutes_by_key, k, 0)

\* C12: in get_apps_usage, when the events of the window leave the subject
\* active, the interval from the last event to min(now, window end) is
\* credited to the key current at the last event and to no other key; when
\* they leave the subject idle, nothing is credited for the tail.
C12_TailGoesToCurrentKeyWhenActive ==
  \A emp \in Subjects, day \in Days :
    LET rows == QueryRows(emp, DayBounds(day)[1], DayBounds(day)[2])
        day_end == DayBounds(day)[2]
    IN rows # <<>> =>
         LET last == rows[Len(rows)].timestamp
             atLast == UsageFold(rows, day_end, last)
         IN ~atLast.raised =>
              \A t \in CallTimes :
                LET atCall == UsageFold(rows, day_end, t)
                IN \A k \in Keys(atCall.minutes_by_key)
                             \cup Keys(atLast.minutes_by_key)
                             \cup {atLast.prev_key} :
                     TailCredit(atCall, atLast, k) =
                       IF LeftActive(emp, day) /\ k = atLast.prev_key
                         THEN Max0(Min(t, day_end) - last)
                         ELSE 0

\* C12 witness: the subject used one application, then another, is left
\* active, and a call after the last event credits the tail to the second.
C12_Witness ==
  \E emp \in Subjects, day \in Days, t \in CallTimes :
    LET rows == QueryRows(emp, DayBounds(day)[1], DayBounds(day)[2])
        day_end == DayBounds(day)[2]
    IN /\ rows # <<>>
       /\ LeftActive(emp, day)
       /\ LET atCall == UsageFold(rows, day_end, t)
              atLast == UsageFold(rows, day_end, rows[Len(rows)].timestamp)
          IN /\ Len(atCall.minutes_by_key) = 2
             /\ TailCredit(atCall, atLast, atCall.prev_key) > 0

(* ------------------------------------------------------------------ *)
(* Claims about readers and writers of the store                       *)
(* ------------------------------------------------------------------ *)

\* C17: a reader is never blocked by a writer in progress: when the main
\* thread is about to read for the daily report, no other thread inside
\* log_movement_batch keeps it waiting.
C17_ReaderNeverWaitsForWriter ==
  reader = "lock" => db_lock = "free"

\* C18: the event store is append-only: no operation deletes or modifies a
\* stored event, so every step leaves each stored event where it was, with
\* the same fields.
C18_StoredEventsStay ==
  [][\A i \in 1..Len(events) :
       i <= Len(events') /\ events'[i] = events[i]]_vars

(* ------------------------------------------------------------------ *)
(* Claims about the company rollup                                     *)
(* ------------------------------------------------------------------ *)

\* The minutes one employee's list reports for key: 0 when the key is not
\* in it or the call raised.
MinutesOf(apps, key) ==
  IF apps = RaisedIndexError \/ \A i \in 1..Len(apps) : apps[i].key # key
    THEN 0
    ELSE apps[CHOOSE i \in 1..Len(apps) : apps[i].key = key].minutes

RECURSIVE SumOfMinutes(_, _, _)
SumOfMinutes(apps_of, k, key) ==
  IF k > Len(apps_of) THEN 0
  ELSE MinutesOf(apps_of[k], key) + SumOfMinutes(apps_of, k + 1, key)

\* C14: in the list of get_company_apps_usage each key is in at most one
\* entry, and the minutes of an entry are the sum, over the employees, of
\* the minutes get_apps_usage reports for that key.
C14_OneEntryPerKeyWithSummedMinutes ==
  \A day \in Days, t \in CallTimes :
    LET apps_of == [i \in 1..Len(EmployeeIds) |->
                      GetAppsUsage(EmployeeIds[i], day, t)]
        out == CompanyRollup(apps_of)
    IN /\ \A i, j \in 1..Len(out) : out[i].key = out[j].key => i = j
       /\ \A i \in 1..Len(out) :
            out[i].minutes = SumOfMinutes(apps_of, 1, out[i].key)

\* C14 witness: two employees both report minutes for one key, and the
\* company list has that key.
C14_Witness ==
  \E day \in Days, t \in CallTimes :
    LET apps_of == [i \in 1..Len(EmployeeIds) |->
                      GetAppsUsage(EmployeeIds[i], day, t)]
        out == GetCompanyAppsUsage(day, t)
    IN \E i \in 1..Len(out) :
         /\ out[i].key = KeyChrome
         /\ \A e \in 1..Len(apps_of) : MinutesOf(apps_of[e], KeyChrome) > 0

(* ------------------------------------------------------------------ *)
(* Claims about the lists of applications                              *)
(* ------------------------------------------------------------------ *)

\* The entries of a list are in non-increasing order of minutes.
ByMinutesDescending(out) ==
  \A i \in 1..(Len(out) - 1) : out[i].minutes >= out[i + 1].minutes

\* The window of a query on a stream of minutes: from the first instant to
\* five minutes after the latest event.
StreamEnd == now + Minutes(5)

\* The times of a call on a stream of minutes: with the latest event, and at
\* the end of the window.
StreamCallTimes == {now, StreamEnd}

\* What get_apps_usage returns for each employee on the window of a stream,
\* called at time t.
StreamAppsOf(t) ==
  [i \in 1..Len(EmployeeIds) |-> AppsUsageIn(EmployeeIds[i], 0, StreamEnd, t)]

\* C15 as stated: the lists of get_apps_usage and get_company_apps_usage are
\* in non-increasing order of minutes and every entry reports strictly
\* positive minutes.
C15_SortedAndReportedMinutesPositive ==
  \A t \in StreamCallTimes :
    LET apps_of == StreamAppsOf(t)
        company == CompanyRollup(apps_of)
    IN /\ ByMinutesDescending(company)
       /\ \A i \in 1..Len(company) : company[i].minutes > 0
       /\ \A e \in 1..Len(apps_of) :
            /\ ByMinutesDescending(apps_of[e])
            /\ \A i \in 1..Len(apps_of[e]) : apps_of[e][i].minutes > 0

\* C15 amended: both lists are in non-increasing order of minutes; every
\* entry of get_company_apps_usage reports strictly positive minutes; every
\* entry of get_apps_usage has a strictly positive duration, which it
\* reports rounded to 0.01 minute, so it may report 0.0.
C15_SortedAndDurationsPositive ==
  \A t \in StreamCallTimes :
    LET apps_of == StreamAppsOf(t)
        company == CompanyRollup(apps_of)
    IN /\ ByMinutesDescending(company)
       /\ \A i \in 1..Len(company) : company[i].minutes > 0
       /\ \A e \in 1..Len(apps_of) :
            LET rows == QueryRows(EmployeeIds[e], 0, StreamEnd)
                duration == IF rows = <<>> THEN <<>>
                            ELSE UsageFold(rows, StreamEnd, t).minutes_by_key
            IN /\ ByMinutesDescending(apps_of[e])
               /\ \A i \in 1..Len(apps_of[e]) :
                    /\ apps_of[e][i].minutes >= 0
                    /\ Get(duration, apps_of[e][i].key, 0) > 0
                    /\ apps_of[e][i].minutes
                         = Round2(Get(duration, apps_of[e][i].key, 0))

\* C15 witness: a list of get_apps_usage has two entries of different
\* minutes, and another one has an entry that reports 0.0.
C15_Witness ==
  \E t \in StreamCallTimes :
    LET apps == StreamAppsOf(t)[1]
    IN /\ Len(apps) = 2
       /\ apps[1].minutes > apps[2].minutes
       /\ apps[2].minutes = 0

(* ------------------------------------------------------------------ *)
(* Claims about the fold over the events of a window                   *)
(* ------------------------------------------------------------------ *)

\* The state the first k rows leave: idle before any event, then active
\* after an active, window_change or non_work_detected event and idle after
\* an idle or idle_photo event.
StateLeftBy(rows, k) ==
  IF k = 0 THEN "idle"
  ELSE IF rows[k].event_type \in {"active", "window_change", "non_work_detected"}
    THEN "active"
  ELSE "idle"

\* The ticks between consecutive rows, from row k on, over which the state
\* left by the preceding rows is state.
RECURSIVE TicksIn(_, _, _)
TicksIn(rows, k, state) ==
  IF k > Len(rows) THEN 0
  ELSE (IF k > 1 /\ StateLeftBy(rows, k - 1) = state
          THEN rows[k].timestamp - rows[k - 1].timestamp ELSE 0)
       + TicksIn(rows, k + 1, state)

\* C20: the fold starts in state idle; the interval before each event goes
\* to active_minutes if and only if the state left by the preceding events
\* is active, otherwise to idle_minutes; an active, window_change or
\* non_work_detected event leaves the state active, an idle or idle_photo
\* event leaves it idle.  So _sum_active_idle up to the last event and
\* get_daily_stats report those two sums.
C20_IntervalGoesToStateLeftByEarlierEvents ==
  \A emp \in Subjects, day \in Days :
    LET rows == QueryRows(emp, DayBounds(day)[1], DayBounds(day)[2])
    IN rows # <<>> =>
         LET expected == <<Round2(TicksIn(rows, 1, "active")),
                           Round2(TicksIn(rows, 1, "idle"))>>
             stats == GetDailyStats(emp, day)
         IN /\ SumActiveIdle(emp, DayBounds(day)[1],
                              rows[Len(rows)].timestamp) = expected
            /\ <<stats.active_time_min, stats.idle_time_min>> = expected

\* C20 witness: an active-class event is followed, later in the day, by
\* another event, so the interval between them is active time.
C20_Witness ==
  \E emp \in Subjects, day \in Days :
    LET rows == QueryRows(emp, DayBounds(day)[1], DayBounds(day)[2])
    IN /\ Len(rows) > 1
       /\ StateLeftBy(rows, 1) = "active"
       /\ GetDailyStats(emp, day).active_time_min > 0

(* ------------------------------------------------------------------ *)
(* Claims about the ends of the window                                 *)
(* ------------------------------------------------------------------ *)

\* The rows of the first employee in the window of a stream.
StreamRows == QueryRows("emp1", 0, StreamEnd)

\* C21: in _sum_active_idle, when the end of the window is later than the
\* last event, end minus its timestamp goes to active_minutes if the events
\* leave the state active and to idle_minutes if they leave it idle; when the
\* end is the time of the last event, nothing is added to the sums of the
\* intervals between events.
C21_TailGoesToTheFinalState ==
  StreamRows # <<>> =>
    LET rows == StreamRows
        last == rows[Len(rows)].timestamp
        active == TicksIn(rows, 1, "active")
        idle == TicksIn(rows, 1, "idle")
    IN /\ SumActiveIdle("emp1", 0, last) = <<Round2(active), Round2(idle)>>
       /\ SumActiveIdle("emp1", 0, StreamEnd) =
            IF StateLeftBy(rows, Len(rows)) = "active"
              THEN <<Round2(active + (StreamEnd - last)), Round2(idle)>>
              ELSE <<Round2(active), Round2(idle + (StreamEnd - last))>>

\* C21 witness: two events of the first employee, the second one leaving the
\* state active, and a window that ends after it.
C21_Witness ==
  /\ Len(StreamRows) = MaxEvents
  /\ StateLeftBy(StreamRows, Len(StreamRows)) = "active"
  /\ StreamEnd > StreamRows[Len(StreamRows)].timestamp
  /\ SumActiveIdle("emp1", 0, StreamEnd)[1] > 0

\* C22: the time between the start of the window and the first event in it
\* goes to neither total: with the same events in the window,
\* _sum_active_idle returns the same pair whether the window starts at the
\* first event or before it.
C22_TotalsDoNotDependOnWindowStart ==
  StreamRows # <<>> =>
    \A end \in {now, StreamEnd} :
      \A start \in {0, StreamRows[1].timestamp} :
        SumActiveIdle("emp1", start, end)
          = SumActiveIdle("emp1", StreamRows[1].timestamp, end)

\* C22 witness: the first event of the window comes minutes after its start
\* and the totals are not zero.
C22_Witness ==
  /\ StreamRows # <<>>
  /\ StreamRows[1].timestamp >= Minutes(5)
  /\ SumActiveIdle("emp1", 0, StreamEnd)[1] > 0

(* ------------------------------------------------------------------ *)
(* Claims about rows that are not in the order of time                 *)
(* ------------------------------------------------------------------ *)

\* The first k stored rows, in the order of insertion.  A query hands its
\* loop the rows in the order of their timestamps; here the loops are run
\* on the rows as they were inserted.
Inserted(k) == SubSeq(events, 1, k)

\* The loop of _sum_active_idle on rows, the tail not closed.
SumsOver(rows) ==
  IF rows = <<>> THEN [active_min |-> 0, idle_min |-> 0]
  ELSE SumLoop(rows, 1,
         [prev_ts |-> rows[1].timestamp, prev_state |-> "idle",
          active_min |-> 0, idle_min |-> 0])

\* The loop of get_apps_usage on rows, the tail not closed.
UsageOver(rows) ==
  IF rows = <<>> THEN <<>> ELSE UsageFold(rows, 0, 0).minutes_by_key

Opens(rows, i) == rows[i].event_type \in {"active", "window_change"}
Closes(rows, j) ==
  rows[j].event_type \in {"idle", "idle_photo", "non_work_detected"}

\* Row i opens a session that row j closes: i is of an opening kind and no
\* session is open before it (every earlier opening row is followed by a
\* closing row before i), j is the first row of a closing kind after i.
IsSession(rows, i, j) ==
  /\ i < j
  /\ Opens(rows, i)
  /\ \A m \in 1..(i - 1) :
       Opens(rows, m) => \E c \in (m + 1)..(i - 1) : Closes(rows, c)
  /\ Closes(rows, j)
  /\ \A c \in (i + 1)..(j - 1) : ~Closes(rows, c)

\* The sessions closed by the rows from row j on, in that order.
RECURSIVE SessionsClosedFrom(_, _)
SessionsClosedFrom(rows, j) ==
  IF j > Len(rows) THEN <<>>
  ELSE (IF \E i \in 1..(j - 1) : IsSession(rows, i, j)
          THEN LET i == CHOOSE i \in 1..(j - 1) : IsSession(rows, i, j)
               IN <<[start |-> rows[i].timestamp, end |-> rows[j].timestamp,
                     duration_seconds |->
                       DurationSeconds(rows[j].timestamp - rows[i].timestamp)]>>
          ELSE <<>>)
       \o SessionsClosedFrom(rows, j + 1)

\* C24: get_continuous_sessions opens a session at an active or
\* window_change event only when none is open and closes it at an idle,
\* idle_photo or non_work_detected event only when one is open, reporting
\* start, end and duration = end - start; an opening event while a session
\* is open and a closing event while none is open change nothing.
C24_SessionsOfTwoStateMachine ==
  ContinuousSessionsIn("emp1", 0, now)
    = SessionsClosedFrom(QueryRows("emp1", 0, now), 1)

\* C24 witness: a session is opened, an opening event comes while it is
\* open, it is closed, and a closing event comes while none is open.
C24_Witness ==
  LET rows == QueryRows("emp1", 0, now)
  IN /\ Len(rows) = ScenarioLen
     /\ Opens(rows, 1) /\ Opens(rows, 2) /\ Closes(rows, 3) /\ Closes(rows, 4)
     /\ rows[1].timestamp < rows[2].timestamp
     /\ Len(ContinuousSessionsIn("emp1", 0, now)) = 1

(* ------------------------------------------------------------------ *)
(* Claims about the current key and its label                          *)
(* ------------------------------------------------------------------ *)

\* The ticks get_apps_usage is to credit to key on rows, the tail closed at
\* tail_end: every interval that follows an active, window_change or
\* non_work_detected event, when the key of that event's own title and
\* process is key.
RECURSIVE TicksOfKey(_, _, _, _)
TicksOfKey(rows, k, key, tail_end) ==
  IF k > Len(rows) THEN 0
  ELSE (IF rows[k].event_type \in ActiveKinds /\ FirstKey(rows[k]) = key
          THEN (IF k < Len(rows)
                  THEN rows[k + 1].timestamp - rows[k].timestamp
                  ELSE Max0(tail_end - rows[k].timestamp))
          ELSE 0)
       + TicksOfKey(rows, k + 1, key, tail_end)

\* C25: get_apps_usage credits each interval in the active state to the key
\* of the most recent active, window_change or non_work_detected event
\* before it, taken from that event's own title and process, and credits
\* no key after an idle or idle_photo event.
C25_IntervalGoesToKeyOfLatestActiveEvent ==
  StreamRows # <<>> =>
    LET acc == UsageFold(StreamRows, StreamEnd, StreamEnd)
        usage == acc.minutes_by_key
    IN ~acc.raised =>
         \A key \in Keys(usage) \cup {FirstKey(r) : r \in Range(StreamRows)} :
           Get(usage, key, 0) = TicksOfKey(StreamRows, 1, key, StreamEnd)

\* Every key of dict before has the same value in dict after.
KeepsValues(before, after) ==
  \A key \in Keys(before) :
    HasKey(after, key) /\ Get(after, key, NULL) = Get(before, key, NULL)

\* name_by_key of get_apps_usage when the loop has taken the first j of
\* rows; no tail is closed at a clock reading of 0.
NamesAfterRows(rows, j) == UsageFold(SubSeq(rows, 1, j), 0, 0).name_by_key

\* names of get_company_apps_usage when the loop has taken the first i
\* employees, apps_of holding what get_apps_usage returned for each.
NamesAfterEmployees(apps_of, i) ==
  EmployeeLoop(SubSeq(apps_of, 1, i), 1,
               [totals |-> <<>>, names |-> <<>>]).names

\* C26: once get_apps_usage has recorded a label for a key, no later event
\* and no closing of the tail changes it, and once get_company_apps_usage
\* has recorded a label for a key, no later employee changes it; the lists
\* returned carry these labels.
C26_LabelFixedByFirstOccurrence ==
  /\ StreamRows # <<>> =>
       LET rows == StreamRows
           n == Len(rows)
           names == [j \in 1..n |-> NamesAfterRows(rows, j)]
           final == UsageFold(rows, StreamEnd, StreamEnd)
           out == AppsUsageIn("emp1", 0, StreamEnd, StreamEnd)
       IN /\ \A j \in 2..n : KeepsValues(names[j - 1], names[j])
          /\ KeepsValues(names[n], final.name_by_key)
          /\ ~final.raised =>
               \A x \in 1..Len(out) :
                 \A j \in 1..n :
                   HasKey(names[j], out[x].key) =>
                     out[x].app = Get(names[j], out[x].key, NULL)
  /\ LET apps_of == StreamAppsOf(StreamEnd)
         names == [i \in 0..Len(EmployeeIds) |->
                     NamesAfterEmployees(apps_of, i)]
         out == CompanyRollup(apps_of)
     IN \A i \in 1..Len(EmployeeIds) :
          /\ KeepsValues(names[i - 1], names[i])
          /\ \A x \in 1..Len(out) :
               HasKey(names[i], out[x].key) =>
                 out[x].app = Get(names[i], out[x].key, NULL)

\* A stream whose first event shows a Chrome window by its title and whose
\* second, minutes later, by its process: the label of key chrome is the one
\* of the title.
C26_Witness ==
  /\ Len(StreamRows) = 2
  /\ StreamRows[1].timestamp < StreamRows[2].timestamp
  /\ \A k \in 1..2 : /\ StreamRows[k].event_type \in ActiveKinds
                       /\ FirstKey(StreamRows[k]) = KeyChrome
  /\ DisplayFromRaw[Coalesce(StreamRows[1])]
       # DisplayFromRaw[Coalesce(StreamRows[2])]
  /\ LET out == AppsUsageIn("emp1", 0, StreamEnd, StreamEnd)
     IN /\ Len(out) = 1
        /\ out[1].app = DisplayFromRaw[Coalesce(StreamRows[1])]

\* C27: the key _normalize gives to a raw identifier that contains "chrome",
\* in any letter case, is chrome.  The raw identifiers are those of the
\* stored events, as get_apps_usage hands them to _normalize.
C27_ContainsChromeGivesKeyChrome ==
  \A r \in Range(events) :
    Contains(Lower(Or(Coalesce(r), Unknown)), KeyChrome)
      => FirstKey(r) = KeyChrome

(* ------------------------------------------------------------------ *)
(* Claims about concurrent writers                                     *)
(* ------------------------------------------------------------------ *)

\* The threads between "with _DB_LOCK:" and the end of the block, in
\* log_movement_batch or in log_event.
InWriteSection ==
  {t \in Flushers : pc[t] \in {"lmb_iter", "lmb_commit"}}
    \cup {c \in LogCallers : log_call.pc[c] \in {"insert", "commit"}}

DetectorFlagCleared == pc["main"] \notin {"init", "running", "det_stop"}

\* The thread has left its loop: the while test failed, or an exception
\* ended the thread.
Ended(t) == pc[t] \in {"done", "dead"}

\* Once stop() has cleared the running flags no loop test lets its loop
\* into the body again: the iteration under way is the last.
NoIterationStartsAfterShutdown ==
  [][/\ (DetectorFlagCleared /\ pc["batch"] = "loop_test")
        => pc'["batch"] # "sleeping"
     /\ (DetectorFlagCleared /\ pc["status"] = "st_test")
        => pc'["status"] # "st_sleep"
     /\ (shutdown_event /\ pc["monitor"] = "mon_test")
        => pc'["monitor"] # "mon_body"]_vars

\* Every loop ends once its flag is cleared.
LoopsEnd ==
  /\ DetectorFlagCleared ~> (Ended("batch") /\ Ended("status"))
  /\ shutdown_event ~> Ended("monitor")

\* stop() does not wait for ever: it returns, or the exception of a failed
\* final flush leaves it.
StopIsOver == shutdown_event ~> (pc["main"] \in {"stopped", "stop_raised"})

\* C29: once stop() has cleared the running flags each loop ends after at
\* most the iteration under way, and stop() returns.
C29_LoopsEndAndStopReturns ==
  /\ NoIterationStartsAfterShutdown
  /\ LoopsEnd
  /\ shutdown_event ~> (pc["main"] = "stopped")

(* ------------------------------------------------------------------ *)
(* Claims about subjects                                               *)
(* ------------------------------------------------------------------ *)

\* The stored events of one subject, in the order of their insertion.
EventsOf(emp) == SelectSeq(events, LAMBDA r : r.employee_id = emp)

\* What the queries of one day return for one subject, get_apps_usage being
\* called at utcnow: the timeline with its sums, the sessions, the usage.
ResultsFor(emp, day, utcnow) ==
  [timeline |-> GetEmployeeFullActivity(emp, DayBounds(day)[1],
                                        DayBounds(day)[2]),
   sessions |-> GetContinuousSessions(emp, day),
   apps |-> GetAppsUsage(emp, day, utcnow)]

\* The rows the three queries would select in a store that held the
\* subject's events and no others.
OwnRows(emp, start, end) ==
  OrderByTimestamp(SelectSeq(EventsOf(emp),
    LAMBDA r : start <= r.timestamp /\ r.timestamp <= end))

\* The same results, computed from the subject's own events alone.
FromOwnEvents(emp, day, utcnow) ==
  LET end == DayBounds(day)[2]
      rows == OwnRows(emp, DayBounds(day)[1], end)
      sums == CloseTail(
                SumLoop(rows, 1,
                  [prev_ts |-> rows[1].timestamp, prev_state |-> "idle",
                   active_min |-> 0, idle_min |-> 0]),
                end)
      usage == UsageFold(rows, end, utcnow)
  IN [timeline |->
        [events |-> rows,
         active_minutes |-> IF rows = <<>> THEN 0 ELSE Round2(sums.active_min),
         idle_minutes |-> IF rows = <<>> THEN 0 ELSE Round2(sums.idle_min)],
      sessions |-> SessionLoop(rows, 1, NoStart, <<>>),
      apps |-> IF rows = <<>> THEN <<>>
               ELSE IF usage.raised THEN RaisedIndexError
               ELSE Output(SortedByValueDesc(usage.minutes_by_key), 1,
                           usage.name_by_key)]

\* C30: the timeline, the sessions and the app usage computed for a subject
\* are determined by the subject's own stored events: whatever is logged,
\* cleared or deleted for other subjects, they are what they would be in a
\* store holding that subject's events alone, so two stores that agree on
\* the subject's events give the same results.
C30_OtherSubjectsDoNotChangeResults ==
  \A emp \in Employees, day \in Days, utcnow \in CallTimes :
    ResultsFor(emp, day, utcnow) = FromOwnEvents(emp, day, utcnow)

\* An event of the second subject was logged after one of the first, on the
\* same day, and the first subject has usage to report.
C30_Witness ==
  /\ Len(events) = 2
  /\ events[1].employee_id = "emp1"
  /\ events[2].employee_id = "emp2"
  /\ Today(events[1].timestamp) = Today(events[2].timestamp)
  /\ events[1].timestamp < events[2].timestamp
  /\ GetAppsUsage("emp1", Today(now), MaxTime) # <<>>
  /\ GetAppsUsage("emp1", Today(now), MaxTime) # RaisedIndexError

(* ------------------------------------------------------------------ *)
(* Claims about the two locks                                          *)
(* ------------------------------------------------------------------ *)

\* The thread is at a "with self.lock:" (in _add_event, get_status or
\* get_summary).
WaitsForLock(t) ==
  \/ t \in Recorders /\ pc[t] = "add_lock"
  \/ t = "status" /\ pc[t] = "st_sleep"
  \/ t = "monitor" /\ pc[t] = "mon_body"

\* The thread is at a "with _DB_LOCK:" (in log_movement_batch or in a
\* query of the daily report).
WaitsForDbLock(t) ==
  \/ t \in Flushers /\ pc[t] = "lmb_lock"
  \/ t = "main" /\ reader \in {"lock", "select"}

\* The thread cannot go on: the lock it is at is held, and for the RLock
\* held by another thread.
Blocked(t) ==
  \/ WaitsForLock(t) /\ lock # "free"
  \/ WaitsForDbLock(t) /\ db_lock \notin {"free", t}

\* The holder of the lock a blocked thread is at.
HolderAwaitedBy(t) == IF WaitsForLock(t) THEN lock ELSE db_lock

\* C31: no interleaving deadlocks.  The thread that holds
\* ActivityDetector.lock is never at an acquisition of it; a thread that
\* holds _DB_LOCK is never at an acquisition of ActivityDetector.lock;
\* _DB_LOCK is acquired a second time only by its owner; and from every
\* blocked thread the chain of holders ends in a thread that can go on.
C31_NoDeadlock ==
  /\ \A t \in Threads : lock = t => ~WaitsForLock(t)
  /\ \A t \in Threads : db_lock = t => ~WaitsForLock(t)
  /\ reader \in {"select", "nested", "selected"} => db_lock = "main"
  /\ \A t \in Threads :
       Blocked(t) =>
         \/ ~Blocked(HolderAwaitedBy(t))
         \/ ~Blocked(HolderAwaitedBy(HolderAwaitedBy(t)))

\* The listener holds ActivityDetector.lock and waits, in its inline flush,
\* for _DB_LOCK, which the batch timer holds; the status poll and the
\* monitoring loop wait for ActivityDetector.lock.
C31_Witness ==
  /\ lock = "mouse"
  /\ pc["mouse"] = "lmb_lock"
  /\ db_lock = "batch"
  /\ Blocked("status")
  /\ Blocked("monitor")

(* ------------------------------------------------------------------ *)
(* Claims that compare the computations over one day                   *)
(* ------------------------------------------------------------------ *)

\* The sum of the values of a dict.
RECURSIVE SumOfValues(_, _)
SumOfValues(d, k) ==
  IF k > Len(d) THEN 0 ELSE d[k][2] + SumOfValues(d, k + 1)

\* What get_apps_usage(emp, day), called at utcnow, has accumulated in
\* minutes_by_key and the state its events leave; nothing for a day without
\* events.
UsageOfDay(emp, day, utcnow) ==
  LET rows == QueryRows(emp, DayBounds(day)[1], DayBounds(day)[2])
  IN IF rows = <<>>
       THEN [raised |-> FALSE, prev_state |-> "idle", minutes_by_key |-> <<>>]
       ELSE UsageFold(rows, DayBounds(day)[2], utcnow)

\* C32: for every stream, day and call time at which get_apps_usage returns,
\* the minutes it has accumulated over all keys, taken to the two decimals
\* of active_minutes, never exceed the active_minutes of _sum_active_idle
\* for the bounds of that day, and are equal to them when the call is made
\* at or after the end of the day or the events leave the state idle.
C32_UsageWithinActiveMinutes ==
  \A emp \in Employees, day \in Days :
    LET active_minutes ==
          SumActiveIdle(emp, DayBounds(day)[1], DayBounds(day)[2])[1]
    IN \A t \in CallTimes :
         LET usage == UsageOfDay(emp, day, t)
             total == Round2(SumOfValues(usage.minutes_by_key, 1))
         IN ~usage.raised =>
              /\ total <= active_minutes
              /\ (t >= DayBounds(day)[2] \/ usage.prev_state = "idle")
                   => total = active_minutes

\* C32 witness: a day whose events leave the subject active in one
\* application after time in another, asked about before its end, when the
\* usage is less than the active minutes, and after it, when they are equal
\* and not zero.
C32_Witness ==
  \E emp \in Employees, day \in Days, t1 \in CallTimes, t2 \in CallTimes :
    LET active_minutes ==
          SumActiveIdle(emp, DayBounds(day)[1], DayBounds(day)[2])[1]
        early == UsageOfDay(emp, day, t1)
        late == UsageOfDay(emp, day, t2)
    IN /\ t1 < DayBounds(day)[2]
       /\ DayBounds(day)[2] <= t2
       /\ ~early.raised
       /\ early.prev_state = "active"
       /\ Len(late.minutes_by_key) = 2
       /\ Round2(SumOfValues(early.minutes_by_key, 1)) < active_minutes
       /\ Round2(SumOfValues(late.minutes_by_key, 1)) = active_minutes

(* ------------------------------------------------------------------ *)
(* Claims about the passes of the monitoring loop                      *)
(* ------------------------------------------------------------------ *)

\* C33 as stated: in a pass of the monitoring loop in which get_status()
\* returned idle, every event logged is idle or idle_photo.
C33_IdlePassLogsOnlyIdleEvents ==
  activity_status = "idle" =>
    \A i \in 1..Len(logged) : logged[i].event_type \in IdleKinds

(* ------------------------------------------------------------------ *)
(* Claims that compare the sessions with the active time               *)
(* ------------------------------------------------------------------ *)

RECURSIVE SumOfDurations(_, _)
SumOfDurations(sessions, k) ==
  IF k > Len(sessions) THEN 0
  ELSE sessions[k].duration_seconds + SumOfDurations(sessions, k + 1)

\* The active time _sum_active_idle accumulates over rows (not empty) and
\* the tail up to end, in ticks.
ActiveTicks(rows, end) ==
  CloseTail(SumLoop(rows, 1,
              [prev_ts |-> rows[1].timestamp, prev_state |-> "idle",
               active_min |-> 0, idle_min |-> 0]),
            end).active_min

C35_OmittedFieldsKeepStoredValues ==
  (employee_call.op = "upsert_employee" /\ employee_call.found.present) =>
    LET row == employees[employee_call.employee_id]
    IN /\ employee_call.name = NULL => row.name = employee_call.found.name
       /\ employee_call.team = NULL => row.team = employee_call.found.team
       /\ employee_call.config = NULL => row.config = employee_call.found.config

(* ------------------------------------------------------------------ *)
(* Claims about clearing a timeline                                    *)
(* ------------------------------------------------------------------ *)

\* The rows of a table that are not rows of the employee on the day, in
\* their order.
OutsideOf(table, emp, day) ==
  SelectSeq(table, LAMBDA r : r.employee_id # emp \/ Today(r.timestamp) # day)

\* A row of the three tables was removed.
RowsRemoved ==
  \/ Len(events') < Len(events)
  \/ Len(movement_logs') < Len(movement_logs)
  \/ Len(screenshots') < Len(screenshots)

\* C36: a step of clear_employee_timeline that removes rows removes, for one
\* employee and one day, the events and the movement logs of that employee
\* with a timestamp on that day and no others; table employees is as it
\* was, and table screenshots is as it was or (include_media) has lost the
\* employee's rows of that day and no others.
C36_ClearRemovesOnlyThatEmployeeAndDay ==
  [][RowsRemoved =>
       \E emp \in Employees, day \in Days :
         /\ events' = OutsideOf(events, emp, day)
         /\ movement_logs' = OutsideOf(movement_logs, emp, day)
         /\ employees' = employees
         /\ \/ screenshots' = screenshots
            \/ screenshots' = OutsideOf(screenshots, emp, day)]_vars

\* C36 witness: the event logged last (at the tick of the clock) is gone,
\* which only clear_employee_timeline does, and a screenshot taken at that
\* tick is still stored.
C36_Witness ==
  /\ now > 0
  /\ \A i \in 1..Len(events) : events[i].timestamp # now
  /\ \E i \in 1..Len(screenshots) : screenshots[i].timestamp = now

(* ------------------------------------------------------------------ *)
(* Claims about names that are blank                                   *)
(* ------------------------------------------------------------------ *)

\* C37 as stated: for the raw identifier of every stored event that is not
\* None, _normalize returns a key that is not empty and does not raise;
\* get_apps_usage returns a list for every employee, day and call time; and
\* get_company_apps_usage, asked after the end of a day, has an entry when
\* an employee has active minutes on that day.
C37_NormalizeAndUsageNeverFail ==
  /\ \A i \in 1..Len(events) :
       Coalesce(events[i]) # NULL =>
         Normalize(Coalesce(events[i])) \notin {IndexError, <<>>}
  /\ \A emp \in Employees, day \in Days, t \in CallTimes :
       GetAppsUsage(emp, day, t) # RaisedIndexError
  /\ \A emp \in Employees, day \in Days, t \in CallTimes :
       (/\ t >= DayBounds(day)[2]
        /\ SumActiveIdle(emp, DayBounds(day)[1], DayBounds(day)[2])[1] > 0)
         => GetCompanyAppsUsage(day, t) # <<>>

(* ------------------------------------------------------------------ *)
(* Claims about the status callback                                    *)
(* ------------------------------------------------------------------ *)

\* C38: every call of on_status_change is made by _status_loop with a
\* status that differs from the one it had recorded (active at first), and
\* so from the status of the call before; the new status is recorded
\* whether the callback raises or not, and the loop goes on to its test.
C38_CallbackOnlyOnTransitions ==
  [][callback'.calls # callback.calls =>
       /\ callback'.status # current_status
       /\ callback.status # "none" => callback'.status # callback.status
       /\ current_status' = callback'.status
       /\ pc'["status"] = "st_test"]_vars

\* C38 witness: the callback was called with idle and then with active, the
\* second call raised, active is recorded, and the loop is in its next
\* round.
C38_Witness ==
  /\ callback.status = "active"
  /\ callback.raised
  /\ current_status = "active"
  /\ pc["status"] = "st_sleep"

(* ------------------------------------------------------------------ *)
(* Claims about the time of the next screenshot                        *)
(* ------------------------------------------------------------------ *)

\* C39: every call of _schedule_next_shot(base, jitter) finds a range that
\* is not empty and takes a delay with low <= delay <= high, where low =
\* max(30, base - max(0, jitter)) and high = max(low, base + max(0,
\* jitter)); the delay is at least 30 seconds, and after a screenshot that
\* was due, captured or not, _next_random_shot_at is the time of the
\* attempt plus that delay, later than the attempt.
C39_DelayWithinRangeAndNextShotLater ==
  shot.caller # "none" =>
    LET a == shot.base - (IF shot.jitter > 0 THEN shot.jitter ELSE 0)
        b == shot.base + (IF shot.jitter > 0 THEN shot.jitter ELSE 0)
        low == IF a > 30 THEN a ELSE 30
        high == IF b > low THEN b ELSE low
    IN /\ ~shot.raised
       /\ low <= shot.delay /\ shot.delay <= high
       /\ shot.delay >= 30
       /\ next_random_shot_at = shot.at + shot.delay
       /\ next_random_shot_at > shot.at

\* C39 witness: a screenshot was due and its capture raised; the next one
\* is scheduled with a base under 30 seconds and a negative jitter.
C39_Witness ==
  /\ shot.caller = "raised"
  /\ shot.base < 30
  /\ shot.jitter < 0
  /\ next_random_shot_at > wall

(* ------------------------------------------------------------------ *)
(* Claims about events of another kind                                 *)
(* ------------------------------------------------------------------ *)

\* The accumulator of _sum_active_idle after the first k rows.
SumAfter(rows, k) ==
  SumLoop(SubSeq(rows, 1, k), 1,
    [prev_ts |-> rows[1].timestamp, prev_state |-> "idle",
     active_min |-> 0, idle_min |-> 0])

\* The accumulator of get_apps_usage after the first k rows.
UsageAfter(rows, k) ==
  LET prev_raw == Or(Coalesce(rows[1]), Unknown)
  IN UsageLoop(SubSeq(rows, 1, k), 1,
       [prev_ts |-> rows[1].timestamp, prev_raw |-> prev_raw,
        prev_key |-> NormalizeRaw[prev_raw], prev_state |-> "idle",
        minutes_by_key |-> <<>>, name_by_key |-> <<>>,
        raised |-> FALSE])

\* The sessions of get_continuous_sessions on the first k rows followed by
\* an idle event at time ts, which closes the session left open.
SessionsClosedAt(rows, k, ts) ==
  SessionLoop(
    Append(SubSeq(rows, 1, k), Row("emp1", ts, "idle", <<NULL, NULL>>)),
    1, NoStart, <<>>)

\* The minutes of the keys other than key.
OtherMinutes(d, key) == SelectSeq(d, LAMBDA item : item[1] # key)

\* C40: a row whose event_type is none of active, window_change,
\* non_work_detected, idle and idle_photo leaves prev_state of
\* _sum_active_idle, prev_state, prev_raw and prev_key of get_apps_usage
\* and the open or closed session of get_continuous_sessions as they were
\* before it, and the time since the row before it is added to active_min
\* or idle_min and, in the active state, to the minutes of the key, by the
\* state and the key that were current before it.
C40_OtherKindKeepsStateAndAccrues ==
  LET rows == QueryRows("emp1", 0, MaxTime) IN
  \A k \in 1..Len(rows) :
    rows[k].event_type \notin
        {"active", "window_change", "non_work_detected", "idle", "idle_photo"}
      => LET ts == rows[k].timestamp
             sum0 == SumAfter(rows, k - 1)
             sum1 == SumAfter(rows, k)
             use0 == UsageAfter(rows, k - 1)
             use1 == UsageAfter(rows, k)
             delta == ts - sum0.prev_ts
             minutes0 == Get(use0.minutes_by_key, use0.prev_key, 0)
             minutes1 == Get(use1.minutes_by_key, use0.prev_key, 0)
         IN /\ sum1.prev_state = sum0.prev_state
            /\ sum1.active_min = sum0.active_min
                 + (IF sum0.prev_state = "active" THEN delta ELSE 0)
            /\ sum1.idle_min = sum0.idle_min
                 + (IF sum0.prev_state = "active" THEN 0 ELSE delta)
            /\ use1.prev_state = use0.prev_state
            /\ use1.prev_raw = use0.prev_raw
            /\ use1.prev_key = use0.prev_key
            /\ minutes1 = minutes0
                 + (IF use0.prev_state = "active" THEN delta ELSE 0)
            /\ OtherMinutes(use1.minutes_by_key, use0.prev_key)
                 = OtherMinutes(use0.minutes_by_key, use0.prev_key)
            /\ SessionLoop(SubSeq(rows, 1, k), 1, NoStart, <<>>)
                 = SessionLoop(SubSeq(rows, 1, k - 1), 1, NoStart, <<>>)
            /\ SessionsClosedAt(rows, k, ts) = SessionsClosedAt(rows, k - 1, ts)

\* C40 witness: a window_change of one application, later an event of
\* another kind carrying another application, later an idle event.
C40_Witness ==
  /\ Len(events) = 3
  /\ events[1].event_type = "window_change"
  /\ events[2].event_type = OtherKind
  /\ events[3].event_type = "idle"
  /\ events[1].process_name # events[2].process_name
  /\ events[1].timestamp < events[2].timestamp
  /\ events[2].timestamp < events[3].timestamp

====
